---------------------------- MODULE Spec2Model ----------------------------
(***************************************************************************)
(* Model of the policy manager's evaluation pipeline                       *)
(* (evaluationService.EvaluateRequest), its Constraint Context, the label  *)
(* matcher, the decision parser and the policy store's List.               *)
(*                                                                         *)
(* JSON values are tagged records, as encoding/json decodes them into      *)
(* interface{} values:                                                     *)
(*   [t |-> "null"]                      nil                               *)
(*   [t |-> "bool", s |-> "true"]        bool                              *)
(*   [t |-> "num",  s |-> "1"]           float64 (s is its decimal text)   *)
(*   [t |-> "str",  s |-> "1"]           string                            *)
(*   [t |-> "arr",  e |-> <<v1, ...>>]   []interface{}                     *)
(*   [t |-> "obj",  m |-> [k |-> v]]     map[string]interface{}            *)
(* A document (map[string]any) is the function of an "obj".                *)
(***************************************************************************)
EXTENDS Integers, Sequences, FiniteSets, TLC

\* ------------------------------------------------------------------ bounds

\* Number of policies in the table of the pipeline specification (Spec).
MaxPolicies == 3

\* Number of rows in the table of the listing specification (SpecList).
MaxRows == 3

\* ------------------------------------------------------------- JSON values

Null == [t |-> "null"]
Bool(b) == [t |-> "bool", s |-> IF b THEN "true" ELSE "false"]
Num(s) == [t |-> "num", s |-> s]
Str(s) == [t |-> "str", s |-> s]
Arr(e) == [t |-> "arr", e |-> e]
Obj(m) == [t |-> "obj", m |-> m]

IsObj(v) == v.t = "obj"

\* The empty map.
EmptyMap == <<>>

\* Object keys of the model's documents and engine results, in the byte order
\* in which fmt and encoding/json sort the keys of a map.
KeyOrder ==
  << "a", "a.b", "b", "output_spec", "rejected", "rejection_reason",
     "selected_provider", "x", "y" >>

SortedKeys(m) == SelectSeq(KeyOrder, LAMBDA k : k \in DOMAIN m)

\* fmt.Sprintf("%v", v): nil prints <nil>, a string prints bare, a float64
\* prints its shortest decimal, a map prints map[k:v k:v] with sorted keys and
\* a slice prints [v v].
RECURSIVE Sprintf(_)
RECURSIVE SprintfEntries(_, _)
RECURSIVE SprintfElems(_)
Sprintf(v) ==
  CASE v.t = "null" -> "<nil>"
    [] v.t = "obj"  -> "map[" \o SprintfEntries(v.m, SortedKeys(v.m)) \o "]"
    [] v.t = "arr"  -> "[" \o SprintfElems(v.e) \o "]"
    [] OTHER        -> v.s

SprintfEntries(m, ks) ==
  IF ks = <<>> THEN ""
  ELSE Head(ks) \o ":" \o Sprintf(m[Head(ks)])
       \o (IF Len(ks) > 1 THEN " " ELSE "")
       \o SprintfEntries(m, Tail(ks))

SprintfElems(e) ==
  IF e = <<>> THEN ""
  ELSE Sprintf(Head(e)) \o (IF Len(e) > 1 THEN " " ELSE "")
       \o SprintfElems(Tail(e))

\* json.Marshal(v): keys of a map sorted, strings quoted.
RECURSIVE Marshal(_)
RECURSIVE MarshalEntries(_, _)
RECURSIVE MarshalElems(_)
Marshal(v) ==
  CASE v.t = "null" -> "null"
    [] v.t = "str"  -> "\"" \o v.s \o "\""
    [] v.t = "obj"  -> "{" \o MarshalEntries(v.m, SortedKeys(v.m)) \o "}"
    [] v.t = "arr"  -> "[" \o MarshalElems(v.e) \o "]"
    [] OTHER        -> v.s

MarshalEntries(m, ks) ==
  IF ks = <<>> THEN ""
  ELSE "\"" \o Head(ks) \o "\":" \o Marshal(m[Head(ks)])
       \o (IF Len(ks) > 1 THEN "," ELSE "")
       \o MarshalEntries(m, Tail(ks))

MarshalElems(e) ==
  IF e = <<>> THEN ""
  ELSE Marshal(Head(e)) \o (IF Len(e) > 1 THEN "," ELSE "")
       \o MarshalElems(Tail(e))

\* deepCopyMap: the value json.Unmarshal rebuilds from json.Marshal's text.
RECURSIVE deepCopyValue(_)
deepCopyValue(v) ==
  CASE v.t = "obj" -> Obj([k \in DOMAIN v.m |-> deepCopyValue(v.m[k])])
    [] v.t = "arr" -> Arr([i \in DOMAIN v.e |-> deepCopyValue(v.e[i])])
    [] v.t = "null" -> Null
    [] OTHER -> [t |-> v.t, s |-> v.s]

deepCopyMap(m) == [k \in DOMAIN m |-> deepCopyValue(m[k])]

\* A comparison of the two maps' %v renderings instead.
mapsEqualBySprintf(a, b) == Sprintf(Obj(a)) = Sprintf(Obj(b))

\* mapsEqual compares the two maps' JSON encodings.
mapsEqual(a, b) == Marshal(Obj(a)) = Marshal(Obj(b))

\* valuesEqual compares the two values' %v renderings.
valuesEqual(a, b) == Sprintf(a) = Sprintf(b)


\* ------------------------------------------------------- Constraint Context
\* The context is the pair (immutableFields, setBy): the set of frozen field
\* paths and the map from field path to the policy that froze it.

IsImmutable(imm, fieldPath) == fieldPath \in imm

GetSetBy(sb, fieldPath) ==
  IF fieldPath \in DOMAIN sb THEN sb[fieldPath] ELSE ""

\* fieldPath := key; if prefix != "" { fieldPath = prefix + "." + key }
FieldPath(prefix, key) ==
  IF prefix = "" THEN key ELSE prefix \o "." \o key

\* original[key]: the zero value nil when the key is missing.
Lookup(m, key) == IF key \in DOMAIN m THEN m[key] ELSE Null

\* What one key of `modified` appends to violations, before the recursion.
ViolationsAtKey(imm, fieldPath, originalValue, modifiedValue) ==
  IF IsImmutable(imm, fieldPath) /\ ~valuesEqual(originalValue, modifiedValue)
  THEN {fieldPath}
  ELSE {}

\* checkViolationsRecursive: every path appended to violations. The loop runs
\* over the keys of `modified` only.
RECURSIVE checkViolationsRecursive(_, _, _, _)
checkViolationsRecursive(imm, prefix, original, modified) ==
  UNION { LET fieldPath == FieldPath(prefix, key)
              modifiedValue == modified[key]
              existedBefore == key \in DOMAIN original
              originalValue == Lookup(original, key)
          IN  ViolationsAtKey(imm, fieldPath, originalValue, modifiedValue)
              \cup
              ( IF IsObj(modifiedValue)
                THEN IF IsObj(originalValue)
                     THEN checkViolationsRecursive(imm, fieldPath,
                                                   originalValue.m, modifiedValue.m)
                     ELSE IF existedBefore /\ IsImmutable(imm, fieldPath)
                          THEN {fieldPath}
                          ELSE {}
                ELSE {} )
        : key \in DOMAIN modified }

CheckViolations(imm, original, modified) ==
  checkViolationsRecursive(imm, "", original, modified)

\* The paths that may stand at violations[0]: `range` over a Go map visits the
\* keys in an unspecified order, so any key whose visit appends something may
\* come first, and what it appends first is its own path or, failing that,
\* the first path its nested call appends.
RECURSIVE FirstViolations(_, _, _, _)
FirstViolations(imm, prefix, original, modified) ==
  UNION { LET fieldPath == FieldPath(prefix, key)
              modifiedValue == modified[key]
              existedBefore == key \in DOMAIN original
              originalValue == Lookup(original, key)
              own == ViolationsAtKey(imm, fieldPath, originalValue, modifiedValue)
          IN  IF own # {} THEN own
              ELSE IF IsObj(modifiedValue)
                   THEN IF IsObj(originalValue)
                        THEN FirstViolations(imm, fieldPath,
                                             originalValue.m, modifiedValue.m)
                        ELSE IF existedBefore /\ IsImmutable(imm, fieldPath)
                             THEN {fieldPath}
                             ELSE {}
                   ELSE {}
        : key \in DOMAIN modified }

\* A variant that does not descend into an object that was an object before:
\* it marks the object as a whole when it changed.
markChangedFieldsFlat(prefix, original, modified) ==
  UNION { LET fieldPath == FieldPath(prefix, key)
              existedBefore == key \in DOMAIN original
              originalValue == Lookup(original, key)
          IN  IF ~existedBefore \/ ~valuesEqual(originalValue, modified[key])
              THEN {fieldPath}
              ELSE {}
        : key \in DOMAIN modified }

\* markChangedFieldsRecursive: every path handed to MarkImmutable.
RECURSIVE markChangedFieldsRecursive(_, _, _)
markChangedFieldsRecursive(prefix, original, modified) ==
  UNION { LET fieldPath == FieldPath(prefix, key)
              modifiedValue == modified[key]
              existedBefore == key \in DOMAIN original
              originalValue == Lookup(original, key)
          IN  IF IsObj(modifiedValue)
              THEN IF IsObj(originalValue)
                   THEN markChangedFieldsRecursive(fieldPath,
                                                   originalValue.m, modifiedValue.m)
                   ELSE {fieldPath}
              ELSE IF ~existedBefore \/ ~valuesEqual(originalValue, modifiedValue)
                   THEN {fieldPath}
                   ELSE {}
        : key \in DOMAIN modified }

MarkChangedFields(original, modified) ==
  markChangedFieldsRecursive("", original, modified)

\* MarkImmutable on every path of `marked`: immutableFields[p] = true and
\* setBy[p] = policyID, whatever setBy[p] was.
MarkImmutableFields(imm, marked) == imm \cup marked

MarkImmutableSetBy(sb, marked, policyID) ==
  [p \in DOMAIN sb \cup marked |-> IF p \in marked THEN policyID ELSE sb[p]]

\* ------------------------------------------------------------ label matcher

\* A matcher that looks only for the selector's keys, not their values.
MatchesLabelSelectorKeysOnly(policySelector, requestLabels) ==
  DOMAIN policySelector \subseteq DOMAIN requestLabels

MatchesLabelSelector(policySelector, requestLabels) ==
  IF DOMAIN policySelector = {} THEN TRUE
  ELSE \A key \in DOMAIN policySelector :
         /\ key \in DOMAIN requestLabels
         /\ requestLabels[key] = policySelector[key]

\* ----------------------------------------------------------- decision parser

\* ParsePolicyDecision: each field is taken only when it has the asserted Go
\* type; OutputSpec stays nil (here: absent, hasOutputSpec FALSE) otherwise.
ParsePolicyDecision(result) ==
  LET has(k, t) == k \in DOMAIN result /\ result[k].t = t
  IN  [ Rejected         |-> has("rejected", "bool") /\ result["rejected"].s = "true",
        RejectionReason  |-> IF has("rejection_reason", "str")
                             THEN result["rejection_reason"].s ELSE "",
        hasOutputSpec    |-> has("output_spec", "obj"),
        OutputSpec       |-> IF has("output_spec", "obj")
                             THEN result["output_spec"].m ELSE EmptyMap,
        SelectedProvider |-> IF has("selected_provider", "str")
                             THEN result["selected_provider"].s ELSE "" ]


\* ------------------------------------------------------------- policy store

\* Policy ids, in ascending byte order.
PolicyIDs == << "p1", "p2", "p3", "p4", "p5" >>

IDRank(id) == CHOOSE i \in DOMAIN PolicyIDs : PolicyIDs[i] = id

\* "GLOBAL" sorts before "USER".
PolicyTypes == << "GLOBAL", "USER" >>

TypeRank(t) == CHOOSE i \in DOMAIN PolicyTypes : PolicyTypes[i] = t

\* A row of the policies table (the columns the evaluation reads).
Policy(id, policyType, priority, enabled, labelSelector) ==
  [ ID            |-> id,
    PolicyType    |-> policyType,
    Priority      |-> priority,
    Enabled       |-> enabled,
    LabelSelector |-> labelSelector,
    PackageName   |-> "policies." \o id ]

\* ORDER BY priority ASC, id ASC: an ordering that forgets policy_type.
DefaultOrderNoType(p, q) ==
  \/ p.Priority < q.Priority
  \/ p.Priority = q.Priority /\ IDRank(p.ID) < IDRank(q.ID)

\* ORDER BY policy_type ASC, priority ASC, id ASC.
DefaultOrder(p, q) ==
  \/ TypeRank(p.PolicyType) < TypeRank(q.PolicyType)
  \/ /\ p.PolicyType = q.PolicyType
     /\ \/ p.Priority < q.Priority
        \/ p.Priority = q.Priority /\ IDRank(p.ID) < IDRank(q.ID)

OrderRows(set) ==
  \* (@@ turns the positions into a table of values, computed once)
  LET position == [ p \in set |->
                      1 + Cardinality({ q \in set : q # p /\ DefaultOrder(q, p) }) ] @@ <<>>
  IN  [ i \in 1..Cardinality(set) |-> CHOOSE p \in set : position[p] = i ]

\* WHERE enabled = ? (no filter on policy_type is given by the evaluation).
FilterEnabled(table, enabled) == { p \in table : p.Enabled = enabled }

\* PolicyStore.List with Filter.Enabled, the default ordering, a page size and
\* an offset: LIMIT pageSize+1 OFFSET offset, trimmed to pageSize rows; the
\* next page token (here the next offset, <<>> when empty) is set only when the
\* extra row was found.
List(table, enabled, pageSize, offset) ==
  LET ordered == OrderRows(FilterEnabled(table, enabled))
      last(n) == IF offset + n < Len(ordered) THEN offset + n ELSE Len(ordered)
      fetched == SubSeq(ordered, offset + 1, last(pageSize + 1))
  IN  IF Len(fetched) > pageSize
      THEN [ Policies      |-> SubSeq(fetched, 1, pageSize),
             NextPageToken |-> << offset + pageSize >> ]
      ELSE [ Policies |-> fetched, NextPageToken |-> <<>> ]

\* PageSize: 1000 in EvaluateRequest's List call.
EvalPageSize == 1000


\* --------------------------------------------------------- evaluation state

VARIABLES
  rows,              \* the policies table
  req,               \* the EvaluationRequest: ServiceInstance, RequestLabels
  pc,                \* "start", "loop" (at the head of the for loop), "done"
  policies,          \* result.Policies
  idx,               \* position of the for loop in policies
  currentSpec,
  originalSpec,
  immutableFields,   \* constraintCtx.immutableFields (its key set)
  setBy,             \* constraintCtx.setBy
  selectedProvider,
  calls,             \* the EvaluatePolicy calls made so far, with their outcomes
  result,            \* what EvaluateRequest returned
  engine,            \* the engine's Rego sources, by policy id
  last,              \* the policy service call under observation
  cancelled,         \* whether the evaluation's ctx has been cancelled
  requests,          \* the policy service calls in flight, step by step
  servers,           \* runServers: ctx, goroutines, wg, errChan, firstErr
  process            \* run: where it is, the store, the deferred calls, the exit

vars ==
  << rows, req, pc, policies, idx, currentSpec, originalSpec,
     immutableFields, setBy, selectedProvider, calls, result, engine, last,
     cancelled, requests, servers, process >>

\* ------------------------------------------------------- errors and response

NoResult == [kind |-> "none"]

NewInternalError(message) == [kind |-> "Internal", message |-> message]

\* A rejection error that drops the policy's reason.
NewPolicyRejectedErrorNoReason(policyID, reason) ==
  [kind |-> "Rejected", policy |-> policyID, reason |-> ""]

NewPolicyRejectedError(policyID, reason) ==
  [kind |-> "Rejected", policy |-> policyID, reason |-> reason]

NewPolicyConflictError(lowerPolicyID, field, higherPolicyID) ==
  [ kind |-> "PolicyConflict", lower |-> lowerPolicyID, field |-> field,
    higher |-> higherPolicyID ]

\* status := APPROVED; if !mapsEqual(originalSpec, currentSpec) { MODIFIED }
EvaluationStatus(original, current) ==
  IF ~mapsEqual(original, current) THEN "MODIFIED" ELSE "APPROVED"

EvaluationResponse(current, provider, status) ==
  [ kind |-> "response", EvaluatedServiceInstance |-> current,
    SelectedProvider |-> provider, Status |-> status ]

\* An input document that forgets the provider selected so far.
EngineInputEmptyProvider(spec, provider) == [spec |-> spec, provider |-> ""]

\* The input document of EvaluatePolicy.
EngineInput(spec, provider) == [spec |-> spec, provider |-> provider]

\* A variant that takes the decision's provider even when it is empty.
UpdateProviderAlways(provider, decision) == decision.SelectedProvider

\* if decision.SelectedProvider != "" { selectedProvider = ... }
UpdateProvider(provider, decision) ==
  IF decision.SelectedProvider # "" THEN decision.SelectedProvider ELSE provider

\* What opaClient.EvaluatePolicy may hand back.
EngineError == [err |-> TRUE]
EngineUndefined == [err |-> FALSE, Defined |-> FALSE]
EngineDefined(r) == [err |-> FALSE, Defined |-> TRUE, Result |-> r]

Call(policy, outcome) ==
  [ policy  |-> policy.ID,
    package |-> policy.PackageName,
    input   |-> EngineInput(currentSpec, selectedProvider),
    outcome |-> outcome ]

\* ------------------------------------------------------------------ actions

\* Lines 57-77: the List call succeeds and the working state is initialised.
ListPolicies ==
  /\ pc = "start"
  /\ policies' = List(rows, TRUE, EvalPageSize, 0).Policies
  /\ currentSpec' = deepCopyMap(req.ServiceInstance)
  /\ originalSpec' = deepCopyMap(req.ServiceInstance)
  /\ immutableFields' = {}
  /\ setBy' = EmptyMap
  /\ selectedProvider' = ""
  /\ idx' = 1
  /\ pc' = "loop"
  /\ UNCHANGED << rows, req, calls, result >>

\* Lines 63-65: the List call returns an error.
ListFails ==
  /\ pc = "start"
  /\ result' = NewInternalError("Failed to retrieve policies")
  /\ pc' = "done"
  /\ UNCHANGED << rows, req, policies, idx, currentSpec, originalSpec,
                  immutableFields, setBy, selectedProvider, calls >>

InLoop == pc = "loop" /\ idx <= Len(policies)

Matches == MatchesLabelSelector(policies[idx].LabelSelector, req.RequestLabels)

\* Lines 82-84: the label selector does not match; continue.
SkipPolicy ==
  /\ InLoop
  /\ ~Matches
  /\ idx' = idx + 1
  /\ UNCHANGED << rows, req, pc, policies, currentSpec, originalSpec,
                  immutableFields, setBy, selectedProvider, calls, result >>

\* A variant that takes an engine error for an undefined policy and continues.
EvaluateFailsAsUndefined ==
  /\ InLoop
  /\ Matches
  /\ calls' = Append(calls, Call(policies[idx], EngineError))
  /\ idx' = idx + 1
  /\ UNCHANGED << rows, req, pc, policies, currentSpec, originalSpec,
                  immutableFields, setBy, selectedProvider, result >>

\* Lines 87-97: EvaluatePolicy returns an error.
EvaluateFails ==
  /\ InLoop
  /\ Matches
  /\ calls' = Append(calls, Call(policies[idx], EngineError))
  /\ result' = NewInternalError("Failed to evaluate policy '" \o policies[idx].ID \o "'")
  /\ pc' = "done"
  /\ UNCHANGED << rows, req, policies, idx, currentSpec, originalSpec,
                  immutableFields, setBy, selectedProvider >>

\* Lines 100-102: the policy is undefined; continue.
EvaluateUndefined ==
  /\ InLoop
  /\ Matches
  /\ calls' = Append(calls, Call(policies[idx], EngineUndefined))
  /\ idx' = idx + 1
  /\ UNCHANGED << rows, req, pc, policies, currentSpec, originalSpec,
                  immutableFields, setBy, selectedProvider, result >>

\* Lines 105-110: the decision rejects the request.
EvaluateRejected(r) ==
  LET decision == ParsePolicyDecision(r)
  IN  /\ InLoop
      /\ Matches
      /\ decision.Rejected
      /\ calls' = Append(calls, Call(policies[idx], EngineDefined(r)))
      /\ result' = NewPolicyRejectedError(policies[idx].ID, decision.RejectionReason)
      /\ pc' = "done"
      /\ UNCHANGED << rows, req, policies, idx, currentSpec, originalSpec,
                      immutableFields, setBy, selectedProvider >>

\* Lines 113-121: the output spec violates the constraint context.
EvaluateConflict(r) ==
  LET decision == ParsePolicyDecision(r)
  IN  /\ InLoop
      /\ Matches
      /\ ~decision.Rejected
      /\ decision.hasOutputSpec
      /\ CheckViolations(immutableFields, currentSpec, decision.OutputSpec) # {}
      /\ \E firstViolation \in
              FirstViolations(immutableFields, "", currentSpec, decision.OutputSpec) :
           result' = NewPolicyConflictError(policies[idx].ID, firstViolation,
                                            GetSetBy(setBy, firstViolation))
      /\ calls' = Append(calls, Call(policies[idx], EngineDefined(r)))
      /\ pc' = "done"
      /\ UNCHANGED << rows, req, policies, idx, currentSpec, originalSpec,
                      immutableFields, setBy, selectedProvider >>

\* Lines 113-137: the decision is applied (output spec, if any, replaces the
\* current spec and its changed fields are frozen; the provider is updated).
EvaluateApplied(r) ==
  LET decision == ParsePolicyDecision(r)
      beforeSpec == deepCopyMap(currentSpec)
      marked == MarkChangedFields(beforeSpec, decision.OutputSpec)
  IN  /\ InLoop
      /\ Matches
      /\ ~decision.Rejected
      /\ IF decision.hasOutputSpec
         THEN /\ CheckViolations(immutableFields, currentSpec, decision.OutputSpec) = {}
              /\ currentSpec' = decision.OutputSpec
              /\ immutableFields' = MarkImmutableFields(immutableFields, marked)
              /\ setBy' = MarkImmutableSetBy(setBy, marked, policies[idx].ID)
         ELSE UNCHANGED << currentSpec, immutableFields, setBy >>
      /\ selectedProvider' = UpdateProvider(selectedProvider, decision)
      /\ calls' = Append(calls, Call(policies[idx], EngineDefined(r)))
      /\ idx' = idx + 1
      /\ UNCHANGED << rows, req, pc, policies, originalSpec, result >>

\* Lines 139-149: the loop is over; the response is returned.
Respond ==
  /\ pc = "loop"
  /\ idx > Len(policies)
  /\ result' = EvaluationResponse(currentSpec, selectedProvider,
                                  EvaluationStatus(originalSpec, currentSpec))
  /\ pc' = "done"
  /\ UNCHANGED << rows, req, policies, idx, currentSpec, originalSpec,
                  immutableFields, setBy, selectedProvider, calls >>

\* One step of EvaluateRequest against an engine that may return `results`.
Step(results) ==
  /\ \/ ListPolicies
     \/ ListFails
     \/ SkipPolicy
     \/ EvaluateFails
     \/ EvaluateUndefined
     \/ \E r \in results : EvaluateRejected(r)
     \/ \E r \in results : EvaluateConflict(r)
     \/ \E r \in results : EvaluateApplied(r)
     \/ Respond
  /\ UNCHANGED << engine, last, cancelled, requests, servers, process >>


\* ------------------------------------------------------------------- inputs

\* Service-instance documents: the request's spec and the output_spec of the
\* engine's decisions.
DocEmpty == EmptyMap
DocX1 == [x |-> Num("1")]
DocXStr1 == [x |-> Str("1")]
DocX2 == [x |-> Num("2")]
DocXNull == [x |-> Null]
DocX1Y1 == [x |-> Num("1"), y |-> Num("1")]
DocX2Y2 == [x |-> Num("2"), y |-> Num("2")]
DocAB1 == [a |-> Obj([b |-> Num("1")])]
DocAB2 == [a |-> Obj([b |-> Num("2")])]
DocAB2Dotted == [a |-> Obj([b |-> Num("2")])] @@ ("a.b" :> Num("1"))

InputDocs == { DocEmpty, DocX1, DocAB1 }

OutputDocs ==
  { DocEmpty, DocX1, DocXStr1, DocX2, DocXNull, DocX1Y1, DocX2Y2,
    DocAB1, DocAB2, DocAB2Dotted }

\* Decision documents the engine may return in the pipeline specification.
EngineResults ==
  { [output_spec |-> Obj(d)] : d \in OutputDocs }
  \cup
  { [rejected |-> Bool(TRUE), rejection_reason |-> Str("denied")],
    [rejected |-> Bool(TRUE), rejection_reason |-> Str("denied"),
     output_spec |-> Obj(DocX2), selected_provider |-> Str("aws")],
    [rejected |-> Bool(FALSE), selected_provider |-> Str("aws")],
    [selected_provider |-> Str("")],
    [rejected |-> Bool(FALSE), output_spec |-> Obj(DocX1),
     selected_provider |-> Str("gcp")],
    [rejected |-> Str("true"), output_spec |-> Str("x"),
     selected_provider |-> Num("1")] }

\* Decision documents the engine may return in the listing specification.
ListResults ==
  { [output_spec |-> Obj(DocX1)],
    [output_spec |-> Obj(DocX2)],
    [rejected |-> Bool(TRUE), rejection_reason |-> Str("denied")] }

\* Label selectors and request labels.
SelectorProdBackend == [env |-> "prod", team |-> "backend"]

Selectors == { EmptyMap, SelectorProdBackend }

RequestLabelSets ==
  { EmptyMap,
    [env |-> "prod"],
    [env |-> "prod", team |-> "frontend"],
    [env |-> "prod", team |-> "backend", zone |-> "z1"] }

Priorities == { 1, 2 }

\* The table of the pipeline specification: MaxPolicies enabled GLOBAL
\* policies with priorities 1, 2, ...; the last one selects on labels.
PipelineTable ==
  { Policy(PolicyIDs[i], "GLOBAL", i, TRUE,
           IF i = MaxPolicies THEN SelectorProdBackend ELSE EmptyMap)
    : i \in 1..MaxPolicies }

\* The tables of the listing specification: MaxRows rows with distinct ids
\* and distinct (priority, policy_type), as the table's unique indexes require.
UniqueKeys(table) ==
  \A p, q \in table :
     p # q => /\ p.ID # q.ID
              /\ ~(p.Priority = q.Priority /\ p.PolicyType = q.PolicyType)

RowsOf(id) ==
  { Policy(id, t, pr, en, sel) :
      t \in { PolicyTypes[i] : i \in DOMAIN PolicyTypes },
      pr \in Priorities, en \in BOOLEAN, sel \in Selectors }

RECURSIVE TablesUpTo(_)
TablesUpTo(n) ==
  IF n = 0 THEN { {} }
  ELSE { table \cup {p} : table \in TablesUpTo(n - 1), p \in RowsOf(PolicyIDs[n]) }

ListTables == { table \in TablesUpTo(MaxRows) : UniqueKeys(table) }

\* ============================================================ policy CRUD
\* -------------------------------------------------------------- Rego source

\* A Rego source is a sequence of lines ("\n"-separated); a line is a sequence
\* of tokens: " " and "\t" (white space), "#", the keyword "package", and
\* other words.
WhiteSpace == { " ", "\t" }

RECURSIVE TrimLeft(_)
TrimLeft(line) ==
  IF line # <<>> /\ Head(line) \in WhiteSpace THEN TrimLeft(Tail(line)) ELSE line

RECURSIVE TrimRight(_)
TrimRight(line) ==
  IF line # <<>> /\ line[Len(line)] \in WhiteSpace
  THEN TrimRight(SubSeq(line, 1, Len(line) - 1))
  ELSE line

\* strings.TrimSpace on one line.
TrimSpace(line) == TrimRight(TrimLeft(line))

\* strings.TrimSpace(code) == "": new lines are white space too.
IsBlank(code) == \A i \in DOMAIN code : TrimSpace(code[i]) = <<>>

\* The text of a token sequence.
RECURSIVE Join(_)
Join(line) == IF line = <<>> THEN "" ELSE Head(line) \o Join(Tail(line))

\* strings.Index, 1-based; 0 when the token does not occur.
IndexOf(line, tok) ==
  IF \E i \in DOMAIN line : line[i] = tok
  THEN CHOOSE i \in DOMAIN line :
         line[i] = tok /\ \A j \in 1..(i - 1) : line[j] # tok
  ELSE 0

ErrEmptyPackageDeclaration == "empty package declaration"
ErrNoPackageDeclaration == "no package declaration found in Rego code"

Extracted(name, err) == [name |-> name, err |-> err]

RECURSIVE ExtractPackageName(_)
ExtractPackageName(regoCode) ==
  IF regoCode = <<>> THEN Extracted("", ErrNoPackageDeclaration)
  ELSE LET trimmed == TrimSpace(Head(regoCode))
       IN  IF trimmed = <<>> \/ Head(trimmed) = "#"
           THEN ExtractPackageName(Tail(regoCode))
           ELSE IF trimmed = << "package" >>
           THEN Extracted("", ErrEmptyPackageDeclaration)
           ELSE IF Len(trimmed) > 2 /\ trimmed[1] = "package" /\ trimmed[2] = " "
           THEN LET pkgName == SubSeq(trimmed, 3, Len(trimmed))
                    hash    == IndexOf(pkgName, "#")
                    cut     == IF hash # 0 THEN SubSeq(pkgName, 1, hash - 1)
                               ELSE pkgName
                    name    == TrimSpace(cut)
                IN  IF name = <<>>
                    THEN Extracted("", ErrEmptyPackageDeclaration)
                    ELSE Extracted(Join(name), "")
           ELSE ExtractPackageName(Tail(regoCode))

\* ------------------------------------------------------------ engine client

\* Optional values (Go pointers, absent map entries): <<>> is nil, <<v>> is v.
Nil == <<>>
Some(v) == << v >>

ErrOPAPolicyNotFound == "policy not found in OPA"
ErrInvalidRego == "invalid Rego code"
ErrOPAUnavailable == "OPA service unavailable"
ErrClientInternal == "client internal error"

\* What httpClient.Do returns: a transport error or a response.
DoFailed == [failed |-> TRUE]
Response(status, raw) == [failed |-> FALSE, StatusCode |-> status, raw |-> raw]

\* The engine's policy API, as the repository's in-memory engine implements
\* it: PUT stores, GET reads, DELETE removes.  fault is what goes wrong with
\* the exchange: "none", "rejected" (400 on PUT), "error" (5xx), "network"
\* (no response), "garbled" (a 200 whose body does not parse, on GET).
EnginePut(sources, policyID, regoCode) ==
  [ id \in DOMAIN sources \cup { policyID } |->
      IF id = policyID THEN regoCode ELSE sources[id] ]

EngineRemove(sources, policyID) ==
  [ id \in DOMAIN sources \ { policyID } |-> sources[id] ]

Exchange(fault, answer) ==
  CASE fault = "none"     -> answer
    [] fault = "rejected" -> Response(400, Nil)
    [] fault = "error"    -> Response(500, Nil)
    [] fault = "garbled"  -> Response(200, Nil)
    [] fault = "network"  -> DoFailed

handleStorePolicyResponse(resp) ==
  IF resp.StatusCode = 200 THEN ""
  ELSE IF resp.StatusCode = 400 THEN ErrInvalidRego
  ELSE ErrOPAUnavailable

\* HTTPClient.StorePolicy: the engine's sources after the call and the error.
StorePolicy(sources, policyID, regoCode, fault) ==
  LET resp == Exchange(fault, Response(200, Nil))
  IN  [ sources |-> IF fault = "none"
                    THEN EnginePut(sources, policyID, regoCode)
                    ELSE sources,
        err     |-> IF resp.failed THEN ErrOPAUnavailable
                    ELSE handleStorePolicyResponse(resp) ]

\* HTTPClient.GetPolicy: the raw source and the error.
GetPolicyFromOPA(sources, policyID, fault) ==
  LET resp == Exchange(fault,
                IF policyID \in DOMAIN sources
                THEN Response(200, Some(sources[policyID]))
                ELSE Response(404, Nil))
  IN  IF resp.failed THEN [ raw |-> Nil, err |-> ErrOPAUnavailable ]
      ELSE IF resp.StatusCode = 404
      THEN [ raw |-> Nil, err |-> ErrOPAPolicyNotFound ]
      ELSE IF resp.StatusCode # 200
      THEN [ raw |-> Nil, err |-> ErrOPAUnavailable ]
      ELSE IF resp.raw = Nil THEN [ raw |-> Nil, err |-> ErrClientInternal ]
      ELSE [ raw |-> resp.raw, err |-> "" ]

handleDeletePolicyResponse(resp) ==
  IF resp.StatusCode = 200 \/ resp.StatusCode = 404 THEN ""
  ELSE ErrOPAUnavailable

\* HTTPClient.DeletePolicy.
DeletePolicyFromOPA(sources, policyID, fault) ==
  LET resp == Exchange(fault,
                IF policyID \in DOMAIN sources THEN Response(200, Nil)
                ELSE Response(404, Nil))
  IN  [ sources |-> IF fault = "none" THEN EngineRemove(sources, policyID)
                    ELSE sources,
        err     |-> IF resp.failed THEN ErrOPAUnavailable
                    ELSE handleDeletePolicyResponse(resp) ]

\* ------------------------------------------------- policy store: one policy

ErrPolicyNotFound == "policy not found"
ErrPolicyIDTaken == "policy ID already taken"
ErrDisplayNamePolicyTypeTaken ==
  "display_name and policy_type combination already taken"
ErrPriorityPolicyTypeTaken ==
  "priority and policy_type combination already taken"

\* gorm.ErrDuplicatedKey (the driver's error, translated) and a driver error
\* of another kind.
ErrDuplicatedKey == "duplicated key not allowed"
ErrDriver == "driver: bad connection"

\* errors.Is(err, gorm.ErrDuplicatedKey), or a raw driver text that contains
\* "unique" or "duplicate key".
IsDuplicateKeyError(err) ==
  err \in { ErrDuplicatedKey, "UNIQUE constraint failed",
            "duplicate key value violates unique constraint" }

\* model.Policy: a row of the policies table.
ModelPolicy(id, displayName, description, policyType, labelSelector, priority, packageName, enabled, createTime, updateTime) ==
  [ ID            |-> id,
    DisplayName   |-> displayName,
    Description   |-> description,
    PolicyType    |-> policyType,
    LabelSelector |-> labelSelector,
    Priority      |-> priority,
    PackageName   |-> packageName,
    Enabled       |-> enabled,
    CreateTime    |-> createTime,
    UpdateTime    |-> updateTime ]

\* A variant of the table without idx_priority_policy_type.
ViolatesUniqueIndexNoPriority(others, p) ==
  \E q \in others :
     \/ q.ID = p.ID
     \/ q.DisplayName = p.DisplayName /\ q.PolicyType = p.PolicyType

\* The table's unique indexes: the primary key, idx_display_name_policy_type
\* and idx_priority_policy_type.  Would row p clash with a row of others?
ViolatesUniqueIndex(others, p) ==
  \E q \in others :
     \/ q.ID = p.ID
     \/ q.DisplayName = p.DisplayName /\ q.PolicyType = p.PolicyType
     \/ q.Priority = p.Priority /\ q.PolicyType = p.PolicyType

\* A variant whose second and third probes report each other's error.
checksSwapped ==
  << ErrPolicyIDTaken, ErrPriorityPolicyTypeTaken, ErrDisplayNamePolicyTypeTaken >>

\* The probes of mapUniqueConstraintError, in their order.
checks ==
  << ErrPolicyIDTaken, ErrDisplayNamePolicyTypeTaken, ErrPriorityPolicyTypeTaken >>

CheckQuery(i, q, attempted) ==
  CASE i = 1 -> q.ID = attempted.ID
    [] i = 2 -> /\ q.DisplayName = attempted.DisplayName
                /\ q.PolicyType = attempted.PolicyType
    [] i = 3 -> /\ q.Priority = attempted.Priority
                /\ q.PolicyType = attempted.PolicyType

\* The loop over checks from probe i on; failing is the probe whose read
\* fails (0: none does).
RECURSIVE RunChecks(_, _, _, _, _, _)
RunChecks(i, table, err, attempted, isUpdate, failing) ==
  IF i > Len(checks) THEN err
  ELSE IF failing = i THEN err
  ELSE IF \E q \in table : /\ CheckQuery(i, q, attempted)
                           /\ isUpdate => q.ID # attempted.ID
       THEN checks[i]
       ELSE RunChecks(i + 1, table, err, attempted, isUpdate, failing)

\* A variant whose probes of an update do not exclude the updated row.
mapUniqueConstraintErrorNoSelfExclusion(table, err, attempted, isUpdate, failing) ==
  IF err = "" THEN ""
  ELSE IF ~IsDuplicateKeyError(err) THEN err
  ELSE RunChecks(1, table, err, attempted, FALSE, failing)

\* A variant that starts at the second probe.
mapUniqueConstraintErrorFromSecond(table, err, attempted, isUpdate, failing) ==
  IF err = "" THEN ""
  ELSE IF ~IsDuplicateKeyError(err) THEN err
  ELSE RunChecks(2, table, err, attempted, isUpdate, failing)

mapUniqueConstraintError(table, err, attempted, isUpdate, failing) ==
  IF err = "" THEN ""
  ELSE IF ~IsDuplicateKeyError(err) THEN err
  ELSE RunChecks(1, table, err, attempted, isUpdate, failing)

\* What a store operation yields: the table after it, the returned row (Nil
\* on error) and the error ("" when nil).  fault = "error" is a failure of
\* the database itself; now is the database clock's reading.
StoreResult(table, policy, err) ==
  [ rows |-> table, policy |-> policy, err |-> err ]

\* PolicyStore.Create.
Create(table, policy, now, fault, failing) ==
  IF fault = "error"
  THEN StoreResult(table, Nil,
         mapUniqueConstraintError(table, ErrDriver, policy, FALSE, failing))
  ELSE IF ViolatesUniqueIndex(table, policy)
  THEN StoreResult(table, Nil,
         mapUniqueConstraintError(table, ErrDuplicatedKey, policy, FALSE, failing))
  ELSE LET created == [ policy EXCEPT !.CreateTime = now, !.UpdateTime = now ]
       IN  StoreResult(table \cup { created }, Some(created), "")

\* A variant that does not look at the number of rows affected.
DeleteUnchecked(table, id, fault) ==
  IF fault = "error" THEN StoreResult(table, Nil, ErrDriver)
  ELSE StoreResult({ q \in table : q.ID # id }, Nil, "")

\* PolicyStore.Delete.
Delete(table, id, fault) ==
  IF fault = "error" THEN StoreResult(table, Nil, ErrDriver)
  ELSE IF ~\E q \in table : q.ID = id
  THEN StoreResult(table, Nil, ErrPolicyNotFound)
  ELSE StoreResult({ q \in table : q.ID # id }, Nil, "")

\* PolicyStore.Update: only the selected columns and update_time are written.
Update(table, policy, now, fault, failing) ==
  IF fault = "error"
  THEN StoreResult(table, Nil,
         mapUniqueConstraintError(table, ErrDriver, policy, TRUE, failing))
  ELSE IF ~\E q \in table : q.ID = policy.ID
  THEN StoreResult(table, Nil, ErrPolicyNotFound)
  ELSE LET old     == CHOOSE q \in table : q.ID = policy.ID
           updated == [ old EXCEPT !.DisplayName   = policy.DisplayName,
                                   !.Description   = policy.Description,
                                   !.LabelSelector = policy.LabelSelector,
                                   !.Priority      = policy.Priority,
                                   !.PackageName   = policy.PackageName,
                                   !.Enabled       = policy.Enabled,
                                   !.UpdateTime    = now ]
       IN  IF ViolatesUniqueIndex(table \ { old }, updated)
           THEN StoreResult(table, Nil,
                  mapUniqueConstraintError(table, ErrDuplicatedKey, policy,
                                           TRUE, failing))
           ELSE StoreResult((table \ { old }) \cup { updated },
                            Some(updated), "")

\* PolicyStore.Get.
Get(table, id, fault) ==
  IF fault = "error" THEN StoreResult(table, Nil, ErrDriver)
  ELSE IF ~\E q \in table : q.ID = id
  THEN StoreResult(table, Nil, ErrPolicyNotFound)
  ELSE StoreResult(table, Some(CHOOSE q \in table : q.ID = id), "")

\* ------------------------------------------------------------ service errors

ErrRecordNotFound == "record not found"

NewInvalidArgumentError(message, detail) ==
  [ kind |-> "InvalidArgument", message |-> message, detail |-> detail ]

NewNotFoundError(message, detail) ==
  [ kind |-> "NotFound", message |-> message, detail |-> detail ]

NewPolicyNotFoundError(policyID) ==
  NewNotFoundError("Policy not found",
                   "Policy with ID '" \o policyID \o "' does not exist")

NewAlreadyExistsError(message, detail) ==
  [ kind |-> "AlreadyExists", message |-> message, detail |-> detail ]

NewPolicyAlreadyExistsError(policyID) ==
  NewAlreadyExistsError("Policy already exists",
                        "A policy with ID '" \o policyID \o "' already exists")

NewPolicyDisplayNamePolicyTypeTakenError(displayName, policyType) ==
  NewAlreadyExistsError(
    "Policy display name and policy type already exists",
    "A policy with display name '" \o displayName \o "' and policy type '"
      \o policyType \o "' already exists")

NewPolicyPriorityPolicyTypeTakenError(priority, policyType) ==
  NewAlreadyExistsError(
    "Policy priority and policy type already exists",
    "A policy with priority '" \o ToString(priority) \o "' and policy type '"
      \o policyType \o "' already exists")

\* A variant that reports every store error as Internal.
processPolicyStoreErrorAllInternal(err, dbPolicy, operation) ==
  NewInternalError("Failed to " \o operation \o " policy")

processPolicyStoreError(err, dbPolicy, operation) ==
  IF err = ErrPolicyIDTaken
  THEN NewPolicyAlreadyExistsError(dbPolicy.ID)
  ELSE IF err = ErrDisplayNamePolicyTypeTaken
  THEN NewPolicyDisplayNamePolicyTypeTakenError(dbPolicy.DisplayName,
                                                dbPolicy.PolicyType)
  ELSE IF err = ErrPriorityPolicyTypeTaken
  THEN NewPolicyPriorityPolicyTypeTakenError(dbPolicy.Priority,
                                             dbPolicy.PolicyType)
  ELSE IF err = ErrPolicyNotFound \/ err = ErrRecordNotFound
  THEN NewPolicyNotFoundError(dbPolicy.ID)
  ELSE NewInternalError("Failed to " \o operation \o " policy")

\* A variant that reports invalid Rego as an internal error.
handleOPAErrorInvalidAsInternal(err, operation) ==
  IF err = "" THEN NoResult
  ELSE NewInternalError("OPA error during " \o operation)

\* A variant that reports a missing source as NotFound.
handleOPAErrorMissingAsNotFound(err, operation) ==
  IF err = "" THEN NoResult
  ELSE IF err = ErrOPAPolicyNotFound
  THEN NewNotFoundError("Policy not found", "no Rego code")
  ELSE IF err = ErrInvalidRego
  THEN NewInvalidArgumentError("Invalid Rego code",
         "The Rego code contains syntax errors: " \o err)
  ELSE NewInternalError("OPA error during " \o operation)

handleOPAError(err, operation) ==
  IF err = "" THEN NoResult
  ELSE IF err = ErrOPAPolicyNotFound
  THEN NewInternalError("Policy Rego code not found in OPA during " \o operation)
  ELSE IF err = ErrInvalidRego
  THEN NewInvalidArgumentError("Invalid Rego code",
         "The Rego code contains syntax errors: " \o err)
  ELSE IF err = ErrOPAUnavailable
  THEN NewInternalError("OPA service unavailable during " \o operation)
  ELSE IF err = ErrClientInternal
  THEN NewInternalError("OPA Client internal error during " \o operation)
  ELSE NewInternalError("OPA error during " \o operation)

\* ------------------------------------------------- API model and validation

MinPriority == 1
MaxPriority == 1000
DefaultPriority == 500

\* v1alpha1.Policy: every field is optional (Nil or Some(value)).
APIPolicy(id, path, displayName, policyType, priority, enabled, createTime, updateTime, regoCode, description, labelSelector) ==
  [ Id            |-> id,
    Path          |-> path,
    DisplayName   |-> displayName,
    PolicyType    |-> policyType,
    Priority      |-> priority,
    Enabled       |-> enabled,
    CreateTime    |-> createTime,
    UpdateTime    |-> updateTime,
    RegoCode      |-> regoCode,
    Description   |-> description,
    LabelSelector |-> labelSelector ]

\* strings.TrimSpace(name) == "" for the display names: a name of blanks.
IsBlankName(name) == name \in { "", " " }

validatePriorityNoUpperBound(priority) ==
  IF priority # Nil /\ priority[1] < MinPriority
  THEN NewInvalidArgumentError("priority must be between 1 and 1000",
         "The priority field must be a value between 1 and 1000")
  ELSE NoResult

validatePriority(priority) ==
  IF priority # Nil /\ (priority[1] < MinPriority \/ priority[1] > MaxPriority)
  THEN NewInvalidArgumentError("priority must be between 1 and 1000",
         "The priority field must be a value between 1 and 1000")
  ELSE NoResult

validatePostInputAcceptsBlankName(policy) ==
  IF policy.DisplayName = Nil
  THEN NewInvalidArgumentError("display_name is required",
         "The display_name field must be present and non-empty")
  ELSE IF policy.PolicyType = Nil
  THEN NewInvalidArgumentError("policy_type is required",
         "The policy_type field must be present (GLOBAL or USER)")
  ELSE IF policy.RegoCode = Nil \/ IsBlank(policy.RegoCode[1])
  THEN NewInvalidArgumentError("rego_code is required",
         "The rego_code field must be present and non-empty")
  ELSE validatePriority(policy.Priority)

validatePostInput(policy) ==
  IF policy.DisplayName = Nil \/ IsBlankName(policy.DisplayName[1])
  THEN NewInvalidArgumentError("display_name is required",
         "The display_name field must be present and non-empty")
  ELSE IF policy.PolicyType = Nil
  THEN NewInvalidArgumentError("policy_type is required",
         "The policy_type field must be present (GLOBAL or USER)")
  ELSE IF policy.RegoCode = Nil \/ IsBlank(policy.RegoCode[1])
  THEN NewInvalidArgumentError("rego_code is required",
         "The rego_code field must be present and non-empty")
  ELSE validatePriority(policy.Priority)

\* idPattern.MatchString: the ids of PolicyIDs are well formed, other
\* strings ("Bad_ID") are not.
idPattern(id) == \E i \in DOMAIN PolicyIDs : PolicyIDs[i] = id

\* getPolicyID: the client's id when given and not empty, else uuid, the
\* freshly generated one.
getPolicyID(clientID, uuid) ==
  IF clientID # Nil /\ clientID[1] # ""
  THEN IF ~idPattern(clientID[1])
       THEN [ id  |-> Nil,
              err |-> NewInvalidArgumentError("Invalid policy ID format",
                        "Policy ID '" \o clientID[1]
                          \o "' does not match required format") ]
       ELSE [ id |-> clientID, err |-> NoResult ]
  ELSE [ id |-> Some(uuid), err |-> NoResult ]

\* A variant that leaves an absent priority at the zero value.
APIToDBModelNoDefault(api, id) ==
  ModelPolicy(id,
    IF api.DisplayName # Nil THEN api.DisplayName[1] ELSE "",
    IF api.Description # Nil THEN api.Description[1] ELSE "",
    IF api.PolicyType # Nil THEN api.PolicyType[1] ELSE "",
    IF api.LabelSelector # Nil THEN api.LabelSelector[1] ELSE EmptyMap,
    IF api.Priority # Nil THEN api.Priority[1] ELSE 0,
    "",
    IF api.Enabled # Nil THEN api.Enabled[1] ELSE TRUE,
    0, 0)

APIToDBModel(api, id) ==
  ModelPolicy(id,
    IF api.DisplayName # Nil THEN api.DisplayName[1] ELSE "",
    IF api.Description # Nil THEN api.Description[1] ELSE "",
    IF api.PolicyType # Nil THEN api.PolicyType[1] ELSE "",
    IF api.LabelSelector # Nil THEN api.LabelSelector[1] ELSE EmptyMap,
    IF api.Priority # Nil THEN api.Priority[1] ELSE DefaultPriority,
    "",
    IF api.Enabled # Nil THEN api.Enabled[1] ELSE TRUE,
    0, 0)

\* A variant that does not carry the priority over.
DBToAPIModelNoPriority(db) ==
  APIPolicy(Some(db.ID), Some("policies/" \o db.ID), Some(db.DisplayName),
    Some(db.PolicyType), Nil, Some(db.Enabled),
    Some(db.CreateTime), Some(db.UpdateTime), Some(<<>>),
    IF db.Description # "" THEN Some(db.Description) ELSE Nil,
    IF db.LabelSelector # EmptyMap THEN Some(db.LabelSelector) ELSE Nil)

DBToAPIModel(db) ==
  APIPolicy(Some(db.ID), Some("policies/" \o db.ID), Some(db.DisplayName),
    Some(db.PolicyType), Some(db.Priority), Some(db.Enabled),
    Some(db.CreateTime), Some(db.UpdateTime), Some(<<>>),
    IF db.Description # "" THEN Some(db.Description) ELSE Nil,
    IF db.LabelSelector # EmptyMap THEN Some(db.LabelSelector) ELSE Nil)

\* A variant that takes enabled from the patch even when it is absent.
mergePolicyOntoPolicyResetsEnabled(patch, existing) ==
  [ existing EXCEPT
      !.DisplayName   = IF patch.DisplayName # Nil THEN patch.DisplayName ELSE @,
      !.Description   = IF patch.Description # Nil THEN patch.Description ELSE @,
      !.Enabled       = patch.Enabled,
      !.LabelSelector = IF patch.LabelSelector # Nil THEN patch.LabelSelector ELSE @,
      !.Priority      = IF patch.Priority # Nil THEN patch.Priority ELSE @,
      !.RegoCode      = IF patch.RegoCode # Nil THEN patch.RegoCode ELSE @ ]

mergePolicyOntoPolicy(patch, existing) ==
  [ existing EXCEPT
      !.DisplayName   = IF patch.DisplayName # Nil THEN patch.DisplayName ELSE @,
      !.Description   = IF patch.Description # Nil THEN patch.Description ELSE @,
      !.Enabled       = IF patch.Enabled # Nil THEN patch.Enabled ELSE @,
      !.LabelSelector = IF patch.LabelSelector # Nil THEN patch.LabelSelector ELSE @,
      !.Priority      = IF patch.Priority # Nil THEN patch.Priority ELSE @,
      !.RegoCode      = IF patch.RegoCode # Nil THEN patch.RegoCode ELSE @ ]

validatePatchInput(patch) ==
  IF patch.RegoCode # Nil /\ IsBlank(patch.RegoCode[1])
  THEN NewInvalidArgumentError("rego_code cannot be empty",
         "When rego_code is provided in the patch it must be non-empty")
  ELSE validatePriority(patch.Priority)

\* A variant that does not look at update_time.
validatePatchImmutableFieldsNoUpdateTime(patch, existing) ==
  IF patch.Path # Nil /\ (existing.Path = Nil \/ patch.Path # existing.Path)
  THEN NewInvalidArgumentError("path cannot be updated",
         "The path field is read-only and cannot be changed")
  ELSE IF patch.Id # Nil /\ (existing.Id = Nil \/ patch.Id # existing.Id)
  THEN NewInvalidArgumentError("id cannot be updated",
         "The id field is read-only and cannot be changed")
  ELSE IF /\ patch.PolicyType # Nil
          /\ existing.PolicyType = Nil \/ patch.PolicyType # existing.PolicyType
  THEN NewInvalidArgumentError("policy_type is immutable",
         "The policy_type field cannot be changed after creation")
  ELSE IF /\ patch.CreateTime # Nil
          /\ existing.CreateTime = Nil \/ patch.CreateTime # existing.CreateTime
  THEN NewInvalidArgumentError("create_time cannot be updated",
         "The create_time field is read-only and cannot be changed")
  ELSE NoResult

validatePatchImmutableFields(patch, existing) ==
  IF patch.Path # Nil /\ (existing.Path = Nil \/ patch.Path # existing.Path)
  THEN NewInvalidArgumentError("path cannot be updated",
         "The path field is read-only and cannot be changed")
  ELSE IF patch.Id # Nil /\ (existing.Id = Nil \/ patch.Id # existing.Id)
  THEN NewInvalidArgumentError("id cannot be updated",
         "The id field is read-only and cannot be changed")
  ELSE IF /\ patch.PolicyType # Nil
          /\ existing.PolicyType = Nil \/ patch.PolicyType # existing.PolicyType
  THEN NewInvalidArgumentError("policy_type is immutable",
         "The policy_type field cannot be changed after creation")
  ELSE IF /\ patch.CreateTime # Nil
          /\ existing.CreateTime = Nil \/ patch.CreateTime # existing.CreateTime
  THEN NewInvalidArgumentError("create_time cannot be updated",
         "The create_time field is read-only and cannot be changed")
  ELSE IF /\ patch.UpdateTime # Nil
          /\ existing.UpdateTime = Nil \/ patch.UpdateTime # existing.UpdateTime
  THEN NewInvalidArgumentError("update_time cannot be updated",
         "The update_time field is read-only and cannot be changed")
  ELSE NoResult

\* ------------------------------------------------ policy service: protocol
\* The two-store protocol of the policy service.  An operation's outcome is
\* the table and the engine's sources after it, what it returned, and the
\* calls it made to the store and to the engine, in order.

Made(callee, op, id, err) ==
  [ callee |-> callee, op |-> op, id |-> id, err |-> err ]

Outcome(table, sources, res, trace) ==
  [ rows |-> table, sources |-> sources, result |-> res, trace |-> trace ]

Returns(policy) == [ kind |-> "ok", policy |-> policy ]

WithRegoCode(apiPolicy, regoCode) ==
  [ apiPolicy EXCEPT !.RegoCode = Some(regoCode) ]

\* What the environment does during one operation: uuid is the generated id,
\* now the database clock, engine the faults of the successive engine
\* exchanges, db the fault of the successive store operations, failing the
\* probe of mapUniqueConstraintError whose read fails.
Env(uuid, now, engineFaults, dbFaults, failing) ==
  [ uuid |-> uuid, now |-> now, engine |-> engineFaults, db |-> dbFaults,
    failing |-> failing ]

\* Create: validate, extract the package, store the source in the engine,
\* insert the row; when the insert fails, delete the source (best effort).
CreateOutcome(table, sources, policy, clientID, env) ==
  LET invalid == validatePostInput(policy)
      policyID == getPolicyID(clientID, env.uuid)
  IN
  IF invalid # NoResult THEN Outcome(table, sources, invalid, <<>>)
  ELSE IF policyID.err # NoResult
  THEN Outcome(table, sources, policyID.err, <<>>)
  ELSE
  LET id        == policyID.id[1]
      regoCode  == policy.RegoCode[1]
      extracted == ExtractPackageName(regoCode)
  IN
  IF extracted.err # ""
  THEN Outcome(table, sources,
         NewInvalidArgumentError("Invalid Rego code", extracted.err), <<>>)
  ELSE
  LET dbPolicy == [ APIToDBModel(policy, id) EXCEPT
                      !.PackageName = extracted.name ]
      stored   == StorePolicy(sources, id, regoCode, env.engine[1])
      t1       == << Made("opa", "StorePolicy", id, stored.err) >>
  IN
  IF stored.err # ""
  THEN Outcome(table, stored.sources, handleOPAError(stored.err, "create"), t1)
  ELSE
  LET created == Create(table, dbPolicy, env.now, env.db[1], env.failing)
      t2      == Append(t1, Made("store", "Create", id, created.err))
  IN
  IF created.err # ""
  THEN LET cleanup == DeletePolicyFromOPA(stored.sources, id, env.engine[2])
       IN  Outcome(created.rows, cleanup.sources,
             processPolicyStoreError(created.err, dbPolicy, "create"),
             Append(t2, Made("opa", "DeletePolicy", id, cleanup.err)))
  ELSE Outcome(created.rows, stored.sources,
         Returns(WithRegoCode(DBToAPIModel(created.policy[1]), regoCode)), t2)

\* Get: the row joined with the source the engine holds.
GetOutcome(table, sources, id, env) ==
  LET found == Get(table, id, env.db[1])
      t1    == << Made("store", "Get", id, found.err) >>
  IN
  IF found.err = ErrPolicyNotFound
  THEN Outcome(table, sources, NewPolicyNotFoundError(id), t1)
  ELSE IF found.err # ""
  THEN Outcome(table, sources, NewInternalError("Failed to get policy"), t1)
  ELSE
  LET fetched == GetPolicyFromOPA(sources, id, env.engine[1])
      t2      == Append(t1, Made("opa", "GetPolicy", id, fetched.err))
  IN
  IF fetched.err # ""
  THEN Outcome(table, sources, handleOPAError(fetched.err, "get"), t2)
  ELSE Outcome(table, sources,
         Returns(WithRegoCode(DBToAPIModel(found.policy[1]), fetched.raw[1])),
         t2)

\* A variant of Update that stores a source in the engine whether or not the
\* patch carries rego_code.
UpdateOutcomeAlwaysStores(table, sources, id, patch, env) ==
  LET invalid == validatePatchInput(patch)
      found   == Get(table, id, env.db[1])
      t1      == << Made("store", "Get", id, found.err) >>
  IN
  IF invalid # NoResult THEN Outcome(table, sources, invalid, <<>>)
  ELSE IF found.err = ErrPolicyNotFound
  THEN Outcome(table, sources, NewPolicyNotFoundError(id), t1)
  ELSE IF found.err # ""
  THEN Outcome(table, sources,
         NewInternalError("Failed to get existing policy"), t1)
  ELSE
  LET existingDB  == found.policy[1]
      existing    == DBToAPIModel(existingDB)
      immutable   == validatePatchImmutableFields(patch, existing)
      merged      == mergePolicyOntoPolicy(patch, existing)
      regoChanged == patch.RegoCode # Nil
      extracted   == IF regoChanged THEN ExtractPackageName(patch.RegoCode[1])
                     ELSE Extracted(existingDB.PackageName, "")
      dbPolicy    == [ APIToDBModel(merged, id) EXCEPT
                         !.PackageName = extracted.name ]
  IN
  IF immutable # NoResult THEN Outcome(table, sources, immutable, t1)
  ELSE IF extracted.err # ""
  THEN Outcome(table, sources,
         NewInvalidArgumentError("Invalid Rego code", extracted.err), t1)
  ELSE
  LET old    == GetPolicyFromOPA(sources, id, env.engine[1])
      t2     == Append(t1, Made("opa", "GetPolicy", id, old.err))
  IN
  IF old.err # ""
  THEN Outcome(table, sources, handleOPAError(old.err, "update"), t2)
  ELSE
  LET stored == StorePolicy(sources, id,
                  IF regoChanged THEN patch.RegoCode[1] ELSE old.raw[1],
                  env.engine[2])
      t3     == Append(t2, Made("opa", "StorePolicy", id, stored.err))
  IN
  IF stored.err # ""
  THEN Outcome(table, stored.sources, handleOPAError(stored.err, "update"), t3)
  ELSE
  LET updated == Update(table, dbPolicy, env.now, env.db[2], env.failing)
      t4      == Append(t3, Made("store", "Update", id, updated.err))
  IN
  IF updated.err # ""
  THEN IF regoChanged
       THEN LET restored == StorePolicy(stored.sources, id, old.raw[1],
                                        env.engine[3])
            IN  Outcome(updated.rows, restored.sources,
                  processPolicyStoreError(updated.err, dbPolicy, "update"),
                  Append(t4, Made("opa", "StorePolicy", id, restored.err)))
       ELSE Outcome(updated.rows, stored.sources,
              processPolicyStoreError(updated.err, dbPolicy, "update"), t4)
  ELSE Outcome(updated.rows, stored.sources,
         Returns(IF regoChanged
                 THEN WithRegoCode(DBToAPIModel(updated.policy[1]),
                                   patch.RegoCode[1])
                 ELSE DBToAPIModel(updated.policy[1])), t4)

\* Update: validate, fetch the row, merge; when the patch carries rego_code,
\* fetch the old source, store the new one; write the row; when the write
\* fails after the source was replaced, store the old source again (best
\* effort).
UpdateOutcome(table, sources, id, patch, env) ==
  LET invalid == validatePatchInput(patch)
      found   == Get(table, id, env.db[1])
      t1      == << Made("store", "Get", id, found.err) >>
  IN
  IF invalid # NoResult THEN Outcome(table, sources, invalid, <<>>)
  ELSE IF found.err = ErrPolicyNotFound
  THEN Outcome(table, sources, NewPolicyNotFoundError(id), t1)
  ELSE IF found.err # ""
  THEN Outcome(table, sources,
         NewInternalError("Failed to get existing policy"), t1)
  ELSE
  LET existingDB  == found.policy[1]
      existing    == DBToAPIModel(existingDB)
      immutable   == validatePatchImmutableFields(patch, existing)
      merged      == mergePolicyOntoPolicy(patch, existing)
      regoChanged == patch.RegoCode # Nil
      extracted   == IF regoChanged THEN ExtractPackageName(patch.RegoCode[1])
                     ELSE Extracted(existingDB.PackageName, "")
      dbPolicy    == [ APIToDBModel(merged, id) EXCEPT
                         !.PackageName = extracted.name ]
  IN
  IF immutable # NoResult THEN Outcome(table, sources, immutable, t1)
  ELSE IF extracted.err # ""
  THEN Outcome(table, sources,
         NewInvalidArgumentError("Invalid Rego code", extracted.err), t1)
  ELSE
  LET old    == IF regoChanged
                THEN GetPolicyFromOPA(sources, id, env.engine[1])
                ELSE [ raw |-> Nil, err |-> "" ]
      t2     == IF regoChanged
                THEN Append(t1, Made("opa", "GetPolicy", id, old.err))
                ELSE t1
  IN
  IF old.err # ""
  THEN Outcome(table, sources, handleOPAError(old.err, "update"), t2)
  ELSE
  LET stored == IF regoChanged
                THEN StorePolicy(sources, id, patch.RegoCode[1], env.engine[2])
                ELSE [ sources |-> sources, err |-> "" ]
      t3     == IF regoChanged
                THEN Append(t2, Made("opa", "StorePolicy", id, stored.err))
                ELSE t2
  IN
  IF stored.err # ""
  THEN Outcome(table, stored.sources, handleOPAError(stored.err, "update"), t3)
  ELSE
  LET updated == Update(table, dbPolicy, env.now, env.db[2], env.failing)
      t4      == Append(t3, Made("store", "Update", id, updated.err))
  IN
  IF updated.err # ""
  THEN IF regoChanged
       THEN LET restored == StorePolicy(stored.sources, id, old.raw[1],
                                        env.engine[3])
            IN  Outcome(updated.rows, restored.sources,
                  processPolicyStoreError(updated.err, dbPolicy, "update"),
                  Append(t4, Made("opa", "StorePolicy", id, restored.err)))
       ELSE Outcome(updated.rows, stored.sources,
              processPolicyStoreError(updated.err, dbPolicy, "update"), t4)
  ELSE Outcome(updated.rows, stored.sources,
         Returns(IF regoChanged
                 THEN WithRegoCode(DBToAPIModel(updated.policy[1]),
                                   patch.RegoCode[1])
                 ELSE DBToAPIModel(updated.policy[1])), t4)

\* Delete: delete the row, then the engine's source (best effort).
DeleteOutcome(table, sources, id, env) ==
  LET deleted == Delete(table, id, env.db[1])
      t1      == << Made("store", "Delete", id, deleted.err) >>
  IN
  IF deleted.err = ErrPolicyNotFound
  THEN Outcome(table, sources, NewPolicyNotFoundError(id), t1)
  ELSE IF deleted.err # ""
  THEN Outcome(table, sources, NewInternalError("Failed to delete policy"), t1)
  ELSE
  LET removed == DeletePolicyFromOPA(sources, id, env.engine[1])
  IN  Outcome(deleted.rows, removed.sources, [ kind |-> "ok", policy |-> Nil ],
              Append(t1, Made("opa", "DeletePolicy", id, removed.err)))

\* ----------------------------------------------------- policy service: calls

\* The call under observation: the operation, its id, its input, what it
\* returned and the calls it made; prev is the observed call before it.
NoCall == [ op |-> "none" ]

Observed(op, id, input, outcome, prev) ==
  [ op |-> op, id |-> id, input |-> input, result |-> outcome.result,
    trace |-> outcome.trace, prev |-> prev ]

\* A call is either observed (last records it) or not (last is reset); the
\* calls that follow an observed call are reads.
Record(observe, call) == IF observe THEN call ELSE NoCall

\* The environment in which nothing goes wrong.
Quiet ==
  Env(PolicyIDs[1], 1, << "none", "none", "none" >>, << "none", "none" >>, 0)

pipelineVars ==
  << req, pc, policies, idx, currentSpec, originalSpec,
     immutableFields, setBy, selectedProvider, calls, result >>

evaluationVars == << pipelineVars, cancelled, requests, servers, process >>

TakenIDs == { q.ID : q \in rows } \cup DOMAIN engine

CreatePolicy(request, env, observe) ==
  /\ last = NoCall
  /\ request.clientID = Nil => env.uuid \notin TakenIDs
  /\ LET o  == CreateOutcome(rows, engine, request.policy, request.clientID, env)
         id == IF request.clientID = Nil THEN env.uuid ELSE request.clientID[1]
     IN  /\ rows' = o.rows
         /\ engine' = o.sources
         /\ last' = Record(observe, Observed("Create", id, request, o, NoCall))
  /\ UNCHANGED evaluationVars

\* A read follows an observed call only on that call's id and without faults.
GetPolicy(id, env) ==
  /\ last.op # "Get"
  /\ last # NoCall => id = last.id /\ env = Quiet
  /\ LET o == GetOutcome(rows, engine, id, env)
     IN  /\ rows' = o.rows
         /\ engine' = o.sources
         /\ last' = Observed("Get", id, Nil, o, last)
  /\ UNCHANGED evaluationVars

UpdatePolicy(id, patch, env, observe) ==
  /\ last = NoCall
  /\ LET o == UpdateOutcome(rows, engine, id, patch, env)
     IN  /\ rows' = o.rows
         /\ engine' = o.sources
         /\ last' = Record(observe, Observed("Update", id, patch, o, NoCall))
  /\ UNCHANGED evaluationVars

DeletePolicy(id, env, observe) ==
  /\ last = NoCall
  /\ LET o == DeleteOutcome(rows, engine, id, env)
     IN  /\ rows' = o.rows
         /\ engine' = o.sources
         /\ last' = Record(observe, Observed("Delete", id, Nil, o, NoCall))
  /\ UNCHANGED evaluationVars

\* ------------------------------------------------------------- CRUD inputs

CrudIDs == { PolicyIDs[1], PolicyIDs[2] }

DisplayNames == { "n1", "n2" }

Times == { 1 }

RegoTest1 == << << "package", " ", "test1" >> >>

RegoTest2 ==
  << << "#", " ", "rules" >>,
     << "package", " ", "test2", " ", "#", " ", "v2" >>,
     << "allow" >> >>

RegoNoPackage == << << "allow" >> >>

RegoBlank == << << " " >>, <<>> >>

NewPolicy(displayName, policyType, priority, regoCode) ==
  APIPolicy(Nil, Nil, displayName, policyType, priority, Nil, Nil, Nil,
            regoCode, Nil, Nil)

ValidPolicies ==
  { NewPolicy(Some("n1"), Some("GLOBAL"), Nil, Some(RegoTest1)),
    NewPolicy(Some("n2"), Some("GLOBAL"), Some(1), Some(RegoTest2)),
    NewPolicy(Some("n1"), Some("GLOBAL"), Some(1), Some(RegoTest2)),
    NewPolicy(Some("n2"), Some("GLOBAL"), Nil, Some(RegoTest1)) }

InvalidPolicies ==
  { NewPolicy(Some(" "), Some("GLOBAL"), Nil, Some(RegoTest1)),
    NewPolicy(Some("n1"), Nil, Nil, Some(RegoTest1)),
    NewPolicy(Some("n1"), Some("GLOBAL"), Nil, Some(RegoBlank)),
    NewPolicy(Some("n1"), Some("GLOBAL"), Some(1001), Some(RegoTest1)),
    NewPolicy(Some("n1"), Some("GLOBAL"), Some(0), Some(RegoTest1)),
    NewPolicy(Some("n1"), Some("GLOBAL"), Nil, Some(RegoNoPackage)) }

CreateRequests ==
  { [ policy |-> p, clientID |-> c ] :
      p \in ValidPolicies, c \in { Some(id) : id \in CrudIDs } \cup { Nil } }
  \cup { [ policy |-> p, clientID |-> Some(PolicyIDs[1]) ] : p \in InvalidPolicies }
  \cup { [ policy |-> NewPolicy(Some("n1"), Some("GLOBAL"), Nil, Some(RegoTest1)),
           clientID |-> Some("Bad_ID") ] }

Patch(displayName, priority, regoCode, policyType) ==
  APIPolicy(Nil, Nil, displayName, policyType, priority, Nil, Nil, Nil,
            regoCode, Nil, Nil)

Patches ==
  { Patch(n, pr, code, Nil) :
      n \in { Nil } \cup { Some(d) : d \in DisplayNames },
      pr \in { Nil, Some(1) },
      code \in { Nil, Some(RegoTest1), Some(RegoTest2) } }
  \cup { Patch(Nil, Some(1001), Nil, Nil),
         Patch(Nil, Nil, Some(RegoBlank), Nil),
         Patch(Nil, Nil, Some(RegoNoPackage), Nil),
         Patch(Nil, Nil, Nil, Some("USER")) }

\* The faults of an exchange with the engine, by request.
PutFaults == { "rejected", "error" }
GetFaults == { "garbled", "error", "network" }
DeleteFaults == { "error" }

\* The environments of a Create: the engine refuses the source; or the
\* insert is tried, fails or not, and the cleanup fails or not; or a probe
\* fails.  The generated id matters only when the client gives none.
GeneratedIDs(request) ==
  IF request.clientID = Nil THEN CrudIDs ELSE { Quiet.uuid }

CreateEnvs(request) ==
  { [ Quiet EXCEPT !.uuid = u, !.now = t, !.engine[1] = f ] :
      u \in GeneratedIDs(request), t \in Times, f \in PutFaults }
  \cup { [ Quiet EXCEPT !.uuid = u, !.now = t, !.db[1] = d, !.engine[2] = f ] :
      u \in GeneratedIDs(request), t \in Times, d \in { "none", "error" },
      f \in DeleteFaults \cup { "none" } }
  \cup { [ Quiet EXCEPT !.uuid = u, !.now = t, !.failing = i ] :
      u \in GeneratedIDs(request), t \in Times, i \in DOMAIN checks }

ReadEnvs ==
  { [ Quiet EXCEPT !.db[1] = d, !.engine[1] = f ] :
      d \in { "none", "error" }, f \in GetFaults \cup { "none" } }

\* The environments of an Update: the read of the row fails; the engine
\* fails to give the old source or refuses the new one; or the write is
\* tried, fails or not, and the restore fails or not; or a probe fails.
UpdateEnvs ==
  { [ Quiet EXCEPT !.db[1] = "error" ] }
  \cup { [ Quiet EXCEPT !.engine[1] = f ] : f \in GetFaults }
  \cup { [ Quiet EXCEPT !.engine[2] = f ] : f \in PutFaults }
  \cup { [ Quiet EXCEPT !.now = t, !.db[2] = d, !.engine[3] = f ] :
      t \in Times, d \in { "none", "error" }, f \in PutFaults \cup { "none" } }
  \cup { [ Quiet EXCEPT !.now = t, !.failing = i ] :
      t \in Times, i \in DOMAIN checks }

DeleteEnvs ==
  { [ Quiet EXCEPT !.db[1] = d, !.engine[1] = f ] :
      d \in { "none", "error" }, f \in DeleteFaults \cup { "none" } }

\* Every table row of the pipeline has its source in the engine.
SourceOf(packageName) == << << "package", " ", packageName >> >>

EngineFor(table) ==
  [ id \in { q.ID : q \in table } |->
      SourceOf((CHOOSE q \in table : q.ID = id).PackageName) ]


\* ------------------------------------------------------------ specifications

NotStarted == [ main |-> "idle" ]

\* run has not been called.
NotRunning == [ pc |-> "off" ]

InitPipeline ==
  /\ pc = "start"
  /\ policies = <<>>
  /\ idx = 0
  /\ currentSpec = EmptyMap
  /\ originalSpec = EmptyMap
  /\ immutableFields = {}
  /\ setBy = EmptyMap
  /\ selectedProvider = ""
  /\ calls = <<>>
  /\ result = NoResult

InitEvaluation ==
  /\ InitPipeline
  /\ cancelled = FALSE
  /\ requests = <<>>
  /\ servers = NotStarted
  /\ process = NotRunning

\* The pipeline: a fixed table, varied documents and decisions.
Init ==
  /\ rows = PipelineTable
  /\ engine = EngineFor(rows)
  /\ last = NoCall
  /\ req \in { [ServiceInstance |-> d, RequestLabels |-> l] :
               d \in InputDocs,
               l \in { EmptyMap, [env |-> "prod", team |-> "backend"] } }
  /\ InitEvaluation

Next == Step(EngineResults)

Spec == Init /\ [][Next]_vars

\* The listing: varied tables and request labels, few decisions.
InitList ==
  /\ rows \in ListTables
  /\ engine = EngineFor(rows)
  /\ last = NoCall
  /\ req \in { [ServiceInstance |-> DocEmpty, RequestLabels |-> l] :
               l \in RequestLabelSets }
  /\ InitEvaluation

NextList == Step(ListResults)

SpecList == InitList /\ [][NextList]_vars

\* The policy service: an empty registry, then any sequence of calls.
InitCrud ==
  /\ rows = {}
  /\ engine = EmptyMap
  /\ last = NoCall
  /\ req = [ ServiceInstance |-> DocEmpty, RequestLabels |-> EmptyMap ]
  /\ InitEvaluation

NextCrud ==
  \/ \E request \in CreateRequests, observe \in BOOLEAN :
       \E env \in CreateEnvs(request) :
         CreatePolicy(request, env, observe)
  \/ \E id \in CrudIDs, env \in ReadEnvs : GetPolicy(id, env)
  \/ \E id \in CrudIDs, patch \in Patches, env \in UpdateEnvs,
        observe \in BOOLEAN : UpdatePolicy(id, patch, env, observe)
  \/ \E id \in CrudIDs, env \in DeleteEnvs, observe \in BOOLEAN :
       DeletePolicy(id, env, observe)

SpecCrud == InitCrud /\ [][NextCrud]_vars

\* ------------------------------------------------------------ store listing

\* pageSize := 50 when the options give none.
DefaultPageSize == 50

\* The page token of an offset: the base64 text of its decimal digits; the
\* offset of a token: 0 for the empty token and for a token that does not
\* decode to a number.
EncodeToken(offset) == "base64(" \o ToString(offset) \o ")"

\* The offsets whose tokens the listings here can meet.
Offsets == 0..(Len(PolicyIDs) + DefaultPageSize)

DecodeToken(token) ==
  IF \E n \in Offsets : EncodeToken(n) = token
  THEN CHOOSE n \in Offsets : EncodeToken(n) = token
  ELSE 0

ListOptions(policyType, enabled, orderBy, pageToken, pageSize) ==
  [ Filter    |-> [ PolicyType |-> policyType, Enabled |-> enabled ],
    OrderBy   |-> orderBy,
    PageToken |-> pageToken,
    PageSize  |-> pageSize ]

\* WHERE policy_type = ? AND enabled = ?, each when the filter gives it.
Where(table, filter) ==
  { p \in table :
      /\ filter.PolicyType # Nil => p.PolicyType = filter.PolicyType[1]
      /\ filter.Enabled # Nil => p.Enabled = filter.Enabled[1] }

\* ORDER BY: does the ordering put p strictly before q?  The empty ordering
\* is the default one; an explicit ordering is applied as given.
Before(orderBy, p, q) ==
  CASE orderBy = ""              -> DefaultOrder(p, q)
    [] orderBy = "priority asc"  -> p.Priority < q.Priority
    [] orderBy = "priority desc" -> p.Priority > q.Priority

\* The sequences a query may return for a set of rows: every arrangement
\* that the ordering allows (rows the ordering does not tell apart come in
\* any order, which may differ from one query to the next).
Arrangements(set, orderBy) ==
  { s \in [ 1..Cardinality(set) -> set ] :
      /\ \A i, j \in DOMAIN s : i # j => s[i] # s[j]
      /\ \A i, j \in DOMAIN s : i < j => ~Before(orderBy, s[j], s[i]) }

\* PolicyStore.List on the rows as the query arranged them: LIMIT
\* pageSize+1 OFFSET offset, trimmed to pageSize rows, with the token of the
\* next offset when the extra row was found.
ListArranged(arranged, opts) ==
  LET pageSize == IF opts.PageSize > 0 THEN opts.PageSize ELSE DefaultPageSize
      offset   == DecodeToken(opts.PageToken)
      upto     == IF offset + pageSize + 1 < Len(arranged)
                  THEN offset + pageSize + 1 ELSE Len(arranged)
      fetched  == SubSeq(arranged, offset + 1, upto)
  IN  IF Len(fetched) > pageSize
      THEN [ Policies      |-> SubSeq(fetched, 1, pageSize),
             NextPageToken |-> EncodeToken(offset + pageSize) ]
      ELSE [ Policies |-> fetched, NextPageToken |-> "" ]

\* A listing under way: its options and the pages returned so far; the
\* options of the next request carry the token of the last page.
Listing(opts, pages) == [ op |-> "List", opts |-> opts, pages |-> pages ]

FollowsUp(opts) ==
  /\ last.op = "List"
  /\ last.pages[Len(last.pages)].NextPageToken # ""
  /\ opts = [ last.opts EXCEPT
               !.PageToken = last.pages[Len(last.pages)].NextPageToken ]

StoreList(opts, arranged) ==
  /\ arranged \in Arrangements(Where(rows, opts.Filter), opts.OrderBy)
  /\ last' = Listing(opts,
                IF FollowsUp(opts)
                THEN Append(last.pages, ListArranged(arranged, opts))
                ELSE << ListArranged(arranged, opts) >>)
  /\ UNCHANGED << rows, engine, evaluationVars >>

\* ------------------------------------------------- the service's listing

MaxPageSize == 1000

\* parseOrderBy of an absent order_by: the default ordering, left to the store.
parseOrderBy(orderBy) == [ orderBy |-> orderBy, err |-> NoResult ]

\* A variant that lets a page size of zero through.
getListOptionsAcceptsZero(pageToken, pageSize) ==
  IF pageSize # Nil /\ pageSize[1] < 0
  THEN [ opts |-> Nil,
         err  |-> NewInvalidArgumentError("Invalid page size",
                    "Page size must be at least 1") ]
  ELSE IF pageSize # Nil /\ pageSize[1] > MaxPageSize
  THEN [ opts |-> Nil,
         err  |-> NewInvalidArgumentError("Invalid page size",
                    "Page size must not exceed 1000") ]
  ELSE [ opts |-> Some(ListOptions(Nil, Nil, parseOrderBy("").orderBy, pageToken,
                    IF pageSize # Nil THEN pageSize[1] ELSE DefaultPageSize)),
         err  |-> NoResult ]

\* getListOptions without filter and order_by: the page size is 50 when
\* absent and must lie in 1..1000 when given.
getListOptions(pageToken, pageSize) ==
  IF pageSize # Nil /\ pageSize[1] < 1
  THEN [ opts |-> Nil,
         err  |-> NewInvalidArgumentError("Invalid page size",
                    "Page size must be at least 1") ]
  ELSE IF pageSize # Nil /\ pageSize[1] > MaxPageSize
  THEN [ opts |-> Nil,
         err  |-> NewInvalidArgumentError("Invalid page size",
                    "Page size must not exceed 1000") ]
  ELSE [ opts |-> Some(ListOptions(Nil, Nil, parseOrderBy("").orderBy, pageToken,
                    IF pageSize # Nil THEN pageSize[1] ELSE DefaultPageSize)),
         err  |-> NoResult ]

\* The answer of ListPolicies: the page's rows as API policies and the token.
PolicyList(page) ==
  [ kind |-> "ok",
    Policies |-> [ i \in DOMAIN page.Policies |-> DBToAPIModel(page.Policies[i]) ],
    NextPageToken |-> IF page.NextPageToken # "" THEN Some(page.NextPageToken) ELSE Nil ]

\* PolicyService.ListPolicies: the options, the store's page, the answer.
ServiceListPolicies(pageToken, pageSize, fault, arranged) ==
  /\ last = NoCall
  /\ LET o == getListOptions(pageToken, pageSize)
     IN  IF o.err # NoResult
         THEN last' = Observed("List", "", pageSize, [ result |-> o.err, trace |-> <<>> ], NoCall)
         ELSE IF fault # "none"
         THEN last' = Observed("List", "", pageSize, [ result |-> NewInternalError("Failed to list policies"), trace |-> << Made("store", "List", "", ErrDriver) >> ], NoCall)
         ELSE /\ arranged \in Arrangements(Where(rows, o.opts[1].Filter), o.opts[1].OrderBy)
              /\ last' = Observed("List", "", pageSize, [ result |-> PolicyList(ListArranged(arranged, o.opts[1])), trace |-> << Made("store", "List", "", "") >> ], NoCall)
  /\ UNCHANGED << rows, engine, evaluationVars >>

\* The policy service under varied inputs: one policy id, every class of
\* Create input and of patch, a clock that has advanced when an Update
\* arrives, and a database that may fail an Update's write.
InputID == PolicyIDs[1]

SelectorProd == [ env |-> "prod" ]

WellFormed == NewPolicy(Some("n1"), Some("GLOBAL"), Nil, Some(RegoTest1))

InputPolicies ==
  { [ WellFormed EXCEPT !.Priority = pr ] :
      pr \in { Nil, Some(-1), Some(0), Some(1), Some(1000), Some(1001) } }
  \cup { [ WellFormed EXCEPT !.Enabled = Some(FALSE) ],
         [ WellFormed EXCEPT !.DisplayName = Nil ],
         [ WellFormed EXCEPT !.DisplayName = Some(" ") ],
         [ WellFormed EXCEPT !.PolicyType = Nil ],
         [ WellFormed EXCEPT !.RegoCode = Nil ],
         [ WellFormed EXCEPT !.RegoCode = Some(RegoBlank) ] }

InputRequests ==
  { [ policy |-> p, clientID |-> Some(InputID) ] : p \in InputPolicies }
  \cup { [ policy |-> WellFormed, clientID |-> c ] :
           c \in { Nil, Some("Bad_ID") } }

EmptyPatch == Patch(Nil, Nil, Nil, Nil)

InputPatches ==
  { EmptyPatch,
    [ EmptyPatch EXCEPT !.DisplayName = Some("n2") ],
    [ EmptyPatch EXCEPT !.RegoCode = Some(RegoTest2) ],
    [ EmptyPatch EXCEPT !.RegoCode = Some(RegoBlank) ],
    [ EmptyPatch EXCEPT !.Enabled = Some(FALSE) ],
    [ EmptyPatch EXCEPT !.Description = Some("d"),
                        !.LabelSelector = Some(SelectorProd) ] }
  \cup { [ EmptyPatch EXCEPT !.Priority = pr ] :
           pr \in { Some(-1), Some(0), Some(1), Some(1000), Some(1001) } }
  \cup { [ EmptyPatch EXCEPT !.DisplayName = Some("n2"), !.Id = Some(id) ] :
           id \in CrudIDs }
  \cup { [ EmptyPatch EXCEPT !.DisplayName = Some("n2"),
                             !.Path = Some("policies/" \o id) ] :
           id \in CrudIDs }
  \cup { [ EmptyPatch EXCEPT !.DisplayName = Some("n2"), !.PolicyType = Some(t) ] :
           t \in { PolicyTypes[i] : i \in DOMAIN PolicyTypes } }
  \cup { [ EmptyPatch EXCEPT !.DisplayName = Some("n2"), !.CreateTime = Some(t) ] :
           t \in { 1, 2 } }
  \cup { [ EmptyPatch EXCEPT !.DisplayName = Some("n2"), !.UpdateTime = Some(t) ] :
           t \in { 1, 2 } }

InputUpdateEnvs ==
  { [ Quiet EXCEPT !.now = 2, !.db[2] = d ] : d \in { "none", "error" } }

InputPageSizes ==
  { Nil, Some(-1), Some(0), Some(1), Some(MaxPageSize), Some(MaxPageSize + 1) }

InitInputs == InitCrud

NextInputs ==
  \/ \E request \in InputRequests, observe \in BOOLEAN :
       CreatePolicy(request, Quiet, observe)
  \/ GetPolicy(InputID, Quiet)
  \/ \E id \in CrudIDs, patch \in InputPatches, env \in InputUpdateEnvs,
        observe \in BOOLEAN : UpdatePolicy(id, patch, env, observe)
  \/ \E observe \in BOOLEAN : DeletePolicy(InputID, Quiet, observe)
  \/ \E pageSize \in InputPageSizes, fault \in { "none", "error" } :
       \E arranged \in Arrangements(rows, "") :
         ServiceListPolicies("", pageSize, fault, arranged)

SpecInputs == InitInputs /\ [][NextInputs]_vars

\* The store's listing: a table that does not change, and listings of it
\* page by page.
PageRowsOf(id) ==
  { Policy(id, t, pr, en, EmptyMap) :
      t \in { PolicyTypes[i] : i \in DOMAIN PolicyTypes },
      pr \in Priorities,
      en \in IF id = PolicyIDs[3] THEN BOOLEAN ELSE { TRUE } }

PageTables ==
  { table \in { { p, q, r } : p \in PageRowsOf(PolicyIDs[1]),
                              q \in PageRowsOf(PolicyIDs[2]),
                              r \in PageRowsOf(PolicyIDs[3]) } :
      UniqueKeys(table) }

\* The options of a listing's first request: the token is empty or not one
\* the store issued.
FirstOptions ==
  { ListOptions(t, en, o, token, n) :
      t \in { Nil, Some("GLOBAL") }, en \in { Nil, Some(TRUE) },
      o \in { "", "priority asc", "priority desc" },
      token \in { "", "garbage" }, n \in 0..2 }

NextOptions ==
  IF last.op = "List"
  THEN { [ last.opts EXCEPT
           !.PageToken = last.pages[Len(last.pages)].NextPageToken ] }
  ELSE {}

InitPages ==
  /\ rows \in PageTables
  /\ engine = EngineFor(rows)
  /\ last = NoCall
  /\ req = [ ServiceInstance |-> DocEmpty, RequestLabels |-> EmptyMap ]
  /\ InitEvaluation

NextPages ==
  \E opts \in FirstOptions \cup NextOptions :
    \E arranged \in Arrangements(Where(rows, opts.Filter), opts.OrderBy) :
      StoreList(opts, arranged)

SpecPages == InitPages /\ [][NextPages]_vars

\* The policy store alone: an empty table, then any sequence of Create,
\* Update and Delete calls of the store, over two policy types.
StoreIDs == { PolicyIDs[1], PolicyIDs[2] }

StorePolicies ==
  { ModelPolicy(id, n, "", t, EmptyMap, pr, "test1", TRUE, 0, 0) :
      id \in StoreIDs, n \in DisplayNames,
      t \in { PolicyTypes[i] : i \in DOMAIN PolicyTypes },
      pr \in { MinPriority, DefaultPriority } }

StoreCall(op, id, input, res) ==
  [ op |-> op, id |-> id, input |-> input, err |-> res.err ]

StoreCreate(policy, now, fault, failing) ==
  /\ LET res == Create(rows, policy, now, fault, failing)
     IN  /\ rows' = res.rows
         /\ last' = StoreCall("store.Create", policy.ID, policy, res)
  /\ UNCHANGED << engine, evaluationVars >>

StoreUpdate(policy, now, fault, failing) ==
  /\ LET res == Update(rows, policy, now, fault, failing)
     IN  /\ rows' = res.rows
         /\ last' = StoreCall("store.Update", policy.ID, policy, res)
  /\ UNCHANGED << engine, evaluationVars >>

StoreDelete(id, fault) ==
  /\ LET res == Delete(rows, id, fault)
     IN  /\ rows' = res.rows
         /\ last' = StoreCall("store.Delete", id, Nil, res)
  /\ UNCHANGED << engine, evaluationVars >>

InitStore ==
  /\ rows = {}
  /\ engine = EmptyMap
  /\ last = NoCall
  /\ req = [ ServiceInstance |-> DocEmpty, RequestLabels |-> EmptyMap ]
  /\ InitEvaluation

\* The database fails, or answers and a probe of mapUniqueConstraintError
\* fails, or nothing fails.
StoreEnvs ==
  { [ fault |-> "none", failing |-> i ] : i \in { 0 } \cup DOMAIN checks }
  \cup { [ fault |-> "error", failing |-> 0 ] }

NextStore ==
  \/ \E policy \in StorePolicies, now \in Times, env \in StoreEnvs :
       StoreCreate(policy, now, env.fault, env.failing)
  \/ \E policy \in StorePolicies, now \in Times, env \in StoreEnvs :
       StoreUpdate(policy, now, env.fault, env.failing)
  \/ \E id \in StoreIDs, fault \in { "none", "error" } : StoreDelete(id, fault)

SpecStore == InitStore /\ [][NextStore]_vars

\* ------------------------------------------------ the store's error mapping

\* mapUniqueConstraintError on its own: the write has failed with err, the
\* probes read the table as it is now (a row the write clashed with may be
\* gone), failing is the probe whose read fails; the service then maps the
\* store's error.
ProbeTables ==
  { t \in SUBSET StorePolicies :
      /\ Cardinality(t) <= 2
      /\ \A p \in t : ~ViolatesUniqueIndex(t \ { p }, p) }

WriteErrors == { ErrDuplicatedKey, "UNIQUE constraint failed", ErrDriver }

MapUniqueConstraintError(attempted, isUpdate, err, failing) ==
  /\ last = NoCall
  /\ LET mapped == mapUniqueConstraintError(rows, err, attempted, isUpdate, failing)
     IN  last' = [ op |-> "mapUniqueConstraintError", attempted |-> attempted,
                   isUpdate |-> isUpdate, err |-> err, failing |-> failing,
                   mapped |-> mapped,
                   result |-> processPolicyStoreError(mapped, attempted,
                                IF isUpdate THEN "update" ELSE "create") ]
  /\ UNCHANGED << rows, engine, evaluationVars >>

InitProbe ==
  /\ rows \in ProbeTables
  /\ engine = EmptyMap
  /\ last = NoCall
  /\ req = [ ServiceInstance |-> DocEmpty, RequestLabels |-> EmptyMap ]
  /\ InitEvaluation

NextProbe ==
  \E attempted \in StorePolicies, isUpdate \in BOOLEAN, err \in WriteErrors,
     failing \in { 0 } \cup DOMAIN checks :
    MapUniqueConstraintError(attempted, isUpdate, err, failing)

SpecProbe == InitProbe /\ [][NextProbe]_vars

\* ------------------------------------------------ ExtractPackageName alone

MaxLines == 3

RegoLines ==
  { <<>>,
    << " " >>,
    << "#", " ", "package", " ", "c" >>,
    << "package" >>,
    << "package", " ", "test1" >>,
    << " ", "package", " ", " ", "test1", " " >>,
    << "package", " ", "test2", " ", "#", " ", "v2" >>,
    << "package", " ", "#", "x" >>,
    << "package", "\t", "test1" >>,
    << "allow" >> }

RegoSources == UNION { [ 1..n -> RegoLines ] : n \in 0..MaxLines }

\* ExtractPackageName is applied to the source drawn.
ExtractCall ==
  /\ last.op = "source"
  /\ last' = [ op |-> "ExtractPackageName", input |-> last.input,
               result |-> ExtractPackageName(last.input) ]
  /\ UNCHANGED << rows, engine, evaluationVars >>

InitRego ==
  /\ rows = {}
  /\ engine = EmptyMap
  /\ last \in { [ op |-> "source", input |-> code ] : code \in RegoSources }
  /\ req = [ ServiceInstance |-> DocEmpty, RequestLabels |-> EmptyMap ]
  /\ InitEvaluation

NextRego == ExtractCall

SpecRego == InitRego /\ [][NextRego]_vars

\* ------------------------------------------- evaluation over a full registry

\* A registry of n enabled policies: the priorities 1..1000 of GLOBAL first,
\* then those of USER (the unique index is on priority with policy_type).
\* The first policy carries a selector, the others none.
FullID(i) == "policy-" \o ToString(i)

FullTable(n) ==
  { Policy(FullID(i),
           IF i <= MaxPriority THEN "GLOBAL" ELSE "USER",
           IF i <= MaxPriority THEN i ELSE i - MaxPriority,
           TRUE,
           IF i = 1 THEN SelectorProdBackend ELSE EmptyMap)
    : i \in 1..n }

InitFull ==
  /\ rows \in { FullTable(EvalPageSize), FullTable(EvalPageSize + 1) }
  /\ engine = EngineFor(rows)
  /\ last = NoCall
  /\ req = [ ServiceInstance |-> DocX1, RequestLabels |-> EmptyMap ]
  /\ InitEvaluation

\* EvaluateRequest against an engine that has no decision for the request.
NextFull ==
  /\ \/ ListPolicies
     \/ ListFails
     \/ SkipPolicy
     \/ EvaluateFails
     \/ EvaluateUndefined
     \/ Respond
  /\ UNCHANGED << engine, last, cancelled, requests, servers, process >>

SpecFull == InitFull /\ [][NextFull]_vars


\* ------------------------------------------------- vocabulary of the claims

\* A key path is the sequence of object keys that leads to a field.
RECURSIVE PathString(_)
PathString(ks) ==
  IF Len(ks) = 1 THEN ks[1]
  ELSE PathString(SubSeq(ks, 1, Len(ks) - 1)) \o "." \o ks[Len(ks)]

\* Every key path of a document, at every depth.
RECURSIVE KeyPaths(_)
KeyPaths(doc) ==
  UNION { {<<k>>} \cup
          ( IF IsObj(doc[k]) THEN { <<k>> \o ks : ks \in KeyPaths(doc[k].m) }
            ELSE {} )
        : k \in DOMAIN doc }

\* The value at a key path of a document that has it.
RECURSIVE ValueAt(_, _)
ValueAt(doc, ks) ==
  IF Len(ks) = 1 THEN doc[ks[1]] ELSE ValueAt(doc[ks[1]].m, Tail(ks))

\* A call whose decision was defined.
IsDefined(c) == ~c.outcome.err /\ c.outcome.Defined

\* The decision document says rejected = true.
SaysRejected(c) ==
  /\ IsDefined(c)
  /\ "rejected" \in DOMAIN c.outcome.Result
  /\ c.outcome.Result["rejected"] = Bool(TRUE)

\* The decision document carries an output_spec object and does not reject.
CarriesOutputSpec(c) ==
  /\ IsDefined(c)
  /\ ~SaysRejected(c)
  /\ "output_spec" \in DOMAIN c.outcome.Result
  /\ IsObj(c.outcome.Result["output_spec"])

OutputSpecOf(c) == c.outcome.Result["output_spec"].m

\* The decision document carries a non-empty selected_provider string.
CarriesProvider(c) ==
  /\ IsDefined(c)
  /\ "selected_provider" \in DOMAIN c.outcome.Result
  /\ c.outcome.Result["selected_provider"].t = "str"
  /\ c.outcome.Result["selected_provider"].s # ""

\* The key paths a call's policy froze: those of its output_spec whose dotted
\* path MarkChangedFields marked.
FrozenKeyPaths(c) ==
  { ks \in KeyPaths(OutputSpecOf(c)) :
      PathString(ks) \in MarkChangedFields(c.input.spec, OutputSpecOf(c)) }

\* The call made by the step, if the step made one.
MadeCall == Len(calls') = Len(calls) + 1
TheCall == calls'[Len(calls')]

Returned == result.kind = "response"

\* ------------------------------------------------------------------- claims

\* C1: in every evaluation that returns a response, every field path a policy
\* froze during the run holds, in the returned evaluated_service_instance, the
\* value that policy wrote.
C1_FrozenValuesKept ==
  Returned =>
    \A i \in DOMAIN calls :
      CarriesOutputSpec(calls[i]) =>
        \A ks \in FrozenKeyPaths(calls[i]) :
          /\ ks \in KeyPaths(result.EvaluatedServiceInstance)
          /\ ValueAt(result.EvaluatedServiceInstance, ks)
               = ValueAt(OutputSpecOf(calls[i]), ks)

\* The fields of the two documents at which the output gives a frozen path a
\* value different from the current one.
OverwrittenFrozenPaths(imm, current, output) ==
  { ks \in KeyPaths(output) \cap KeyPaths(current) :
      /\ PathString(ks) \in imm
      /\ ValueAt(output, ks) # ValueAt(current, ks) }

\* C2: a step in which a non-rejecting decision's output_spec gives a frozen
\* path a value different from the one in current_spec ends the evaluation
\* with PolicyConflict(lower = the evaluated policy, field = a violated path,
\* higher = SetBy(field)).
C2_OverwriteAborts ==
  [][ ( /\ MadeCall
        /\ CarriesOutputSpec(TheCall)
        /\ OverwrittenFrozenPaths(immutableFields, currentSpec,
                                  OutputSpecOf(TheCall)) # {} )
      => /\ pc' = "done"
         /\ result'.kind = "PolicyConflict"
         /\ result'.lower = TheCall.policy
         /\ result'.field \in
              CheckViolations(immutableFields, currentSpec, OutputSpecOf(TheCall))
         /\ result'.higher = GetSetBy(setBy, result'.field) ]_vars

\* The frozen fields of the current document that the output leaves out.
RemovedFrozenPaths(imm, current, output) ==
  { ks \in KeyPaths(current) \ KeyPaths(output) : PathString(ks) \in imm }

\* C3: a step in which a non-rejecting decision's output_spec omits a key of
\* current_spec whose path is frozen reports that path and ends the
\* evaluation with PolicyConflict.
C3_RemovalAborts ==
  [][ ( /\ MadeCall
        /\ CarriesOutputSpec(TheCall) )
      => \A ks \in RemovedFrozenPaths(immutableFields, currentSpec,
                                       OutputSpecOf(TheCall)) :
           /\ PathString(ks) \in
                CheckViolations(immutableFields, currentSpec, OutputSpecOf(TheCall))
           /\ pc' = "done"
           /\ result'.kind = "PolicyConflict" ]_vars

\* C4: the result of an evaluation is a function of the input, the policy
\* list and the engine's decisions: a PolicyConflict reports the one field and
\* higher-priority policy that every run on these decisions reports.
C4_ConflictDetermined ==
  result.kind = "PolicyConflict" =>
    LET c == calls[Len(calls)]
    IN  \A f \in FirstViolations(immutableFields, "", currentSpec, OutputSpecOf(c)) :
          result = NewPolicyConflictError(c.policy, f, GetSetBy(setBy, f))

\* ctx.setBy after the first k calls of the run.
RECURSIVE SetByAfter(_)
SetByAfter(k) ==
  IF k = 0 THEN EmptyMap
  ELSE IF CarriesOutputSpec(calls[k])
       THEN MarkImmutableSetBy(SetByAfter(k - 1),
                               MarkChangedFields(calls[k].input.spec,
                                                 OutputSpecOf(calls[k])),
                               calls[k].policy)
       ELSE SetByAfter(k - 1)

\* C5: in a successful evaluation the attribution of a frozen path never
\* changes: SetBy(p) after stage k is SetBy(p) after stage k-1 unless p was
\* unset after stage k-1.
C5_AttributionStable ==
  Returned =>
    \A k \in DOMAIN calls :
      \A p \in DOMAIN SetByAfter(k - 1) :
        SetByAfter(k)[p] = SetByAfter(k - 1)[p]


\* C6: for every successful evaluation the returned status is APPROVED if and
\* only if the returned evaluated_service_instance equals the input
\* service_instance as a JSON document (key order apart), and MODIFIED
\* otherwise.
C6_StatusFidelity ==
  Returned =>
    /\ result.Status \in { "APPROVED", "MODIFIED" }
    /\ result.Status = "APPROVED"
         <=> result.EvaluatedServiceInstance = req.ServiceInstance

\* C6's case: both verdicts on a document that a policy has replaced, the
\* APPROVED one included.
C6_Witness ==
  /\ Returned
  /\ result.Status = "APPROVED"
  /\ \E i \in DOMAIN calls :
       /\ CarriesOutputSpec(calls[i])
       /\ OutputSpecOf(calls[i]) # req.ServiceInstance

\* The selector holds of the labels: each of its pairs is among them.
SelectorHolds(selector, labels) ==
  \A k \in DOMAIN selector : k \in DOMAIN labels /\ labels[k] = selector[k]

\* The positions of the list the loop has dealt with.
Visited ==
  IF pc = "loop" THEN 1..(idx - 1)
  ELSE IF Returned THEN DOMAIN policies
  ELSE 1..idx

SentToEngine(policy) == \E i \in DOMAIN calls : calls[i].policy = policy.ID

\* C7: a listed policy the loop has dealt with was sent to the engine if and
\* only if every pair of its label_selector is among the request labels.
C7_LabelSelector ==
  \A i \in Visited \cap DOMAIN policies :
    SentToEngine(policies[i])
      <=> SelectorHolds(policies[i].LabelSelector, req.RequestLabels)

\* C7's case: a policy with a non-empty selector is sent on a request that
\* carries more labels than the selector names.
C7_Witness ==
  /\ Returned
  /\ \E i \in DOMAIN policies :
       /\ SentToEngine(policies[i])
       /\ DOMAIN policies[i].LabelSelector # {}
       /\ DOMAIN req.RequestLabels \ DOMAIN policies[i].LabelSelector # {}

\* The spec and the provider the claim expects the i-th call to carry.
RECURSIVE ExpectedSpec(_)
ExpectedSpec(i) ==
  IF i = 1 THEN req.ServiceInstance
  ELSE IF CarriesOutputSpec(calls[i - 1]) THEN OutputSpecOf(calls[i - 1])
       ELSE ExpectedSpec(i - 1)

RECURSIVE ExpectedProvider(_)
ExpectedProvider(i) ==
  IF i = 1 THEN ""
  ELSE IF CarriesProvider(calls[i - 1])
       THEN calls[i - 1].outcome.Result["selected_provider"].s
       ELSE ExpectedProvider(i - 1)

\* C8: the engine input of each evaluated policy is {spec, provider} with the
\* output_spec of the latest earlier decision that carried one (the original
\* service_instance if none) and the latest non-empty selected_provider of an
\* earlier decision (the empty string if none); the response's
\* selected_provider is that value after the last policy.
C8_SequentialInputs ==
  /\ \A i \in DOMAIN calls :
       calls[i].input = [spec |-> ExpectedSpec(i), provider |-> ExpectedProvider(i)]
  /\ Returned => result.SelectedProvider = ExpectedProvider(Len(calls) + 1)

\* C8's case: a policy is handed a spec and a provider that earlier policies
\* produced, after a decision with an empty provider in between.
C8_Witness ==
  /\ Returned
  /\ result.SelectedProvider # ""
  /\ \E i, j \in DOMAIN calls :
       /\ j < i
       /\ calls[i].input.provider # ""
       /\ calls[i].input.spec # req.ServiceInstance
       /\ IsDefined(calls[j])
       /\ "selected_provider" \in DOMAIN calls[j].outcome.Result
       /\ calls[j].outcome.Result["selected_provider"] = Str("")
       /\ calls[j].input.provider # ""

\* The rejection_reason of a decision document ("" when it has none).
ReasonOf(c) ==
  IF /\ "rejection_reason" \in DOMAIN c.outcome.Result
     /\ c.outcome.Result["rejection_reason"].t = "str"
  THEN c.outcome.Result["rejection_reason"].s
  ELSE ""

\* C9: a decision with rejected = true ends the evaluation with Rejected
\* carrying that policy's id and its rejection_reason, whatever else the
\* decision holds, and it is the last call of the run.
C9_RejectionAborts ==
  \A i \in DOMAIN calls :
    SaysRejected(calls[i]) =>
      /\ i = Len(calls)
      /\ pc = "done"
      /\ result = [ kind |-> "Rejected", policy |-> calls[i].policy,
                    reason |-> ReasonOf(calls[i]) ]

\* C9's case: a rejecting decision that also carries an output_spec and a
\* selected_provider, after another policy has been evaluated.
C9_Witness ==
  /\ result.kind = "Rejected"
  /\ Len(calls) >= 2
  /\ LET c == calls[Len(calls)]
     IN  /\ "output_spec" \in DOMAIN c.outcome.Result
         /\ "selected_provider" \in DOMAIN c.outcome.Result
         /\ result.reason = "denied"

\* policy_type ascending, then priority ascending, then id ascending.
EvaluationOrder(p, q) ==
  \/ p.PolicyType = "GLOBAL" /\ q.PolicyType = "USER"
  \/ /\ p.PolicyType = q.PolicyType
     /\ \/ p.Priority < q.Priority
        \/ p.Priority = q.Priority /\ IDRank(p.ID) < IDRank(q.ID)

RowOf(id) == CHOOSE p \in rows : p.ID = id

\* C10: an evaluation lists only enabled rows of the table, in the order
\* (policy_type, priority, id), and sends policies to the engine in that
\* order; a disabled policy is never sent.
C10_EnabledInOrder ==
  /\ \A i \in DOMAIN policies : policies[i] \in rows /\ policies[i].Enabled
  /\ \A i, j \in DOMAIN policies :
       i < j => EvaluationOrder(policies[i], policies[j])
  /\ \A i \in DOMAIN calls :
       \E p \in rows : p.ID = calls[i].policy /\ p.Enabled
  /\ \A i, j \in DOMAIN calls :
       i < j => EvaluationOrder(RowOf(calls[i].policy), RowOf(calls[j].policy))

\* C10's case: a GLOBAL policy is evaluated before a USER policy of a lower
\* priority number while the table also holds a disabled row.
C10_Witness ==
  /\ Returned
  /\ \E p \in rows : ~p.Enabled
  /\ \E i, j \in DOMAIN calls :
       /\ i < j
       /\ RowOf(calls[i].policy).PolicyType = "GLOBAL"
       /\ RowOf(calls[j].policy).PolicyType = "USER"
       /\ RowOf(calls[j].policy).Priority < RowOf(calls[i].policy).Priority

\* ================================================== claims on the policy service

\* Claim vocabulary: the row and the engine's source of an id.
HasRow(table, id) == \E q \in table : q.ID = id
TheRow(table, id) == CHOOSE q \in table : q.ID = id
HasSource(sources, id) == id \in DOMAIN sources
DeclaredPackage(code) == ExtractPackageName(code).name

\* The calls an observed call made to the engine, and to the store.
EngineCalls(call, op) ==
  { i \in DOMAIN call.trace :
      call.trace[i].callee = "opa" /\ call.trace[i].op = op }
StoreCalls(call, op) ==
  { i \in DOMAIN call.trace :
      call.trace[i].callee = "store" /\ call.trace[i].op = op }

UniquenessErrors ==
  { ErrPolicyIDTaken, ErrDisplayNamePolicyTypeTaken, ErrPriorityPolicyTypeTaken }

KeyMessage(err) ==
  CASE err = ErrPolicyIDTaken -> "Policy already exists"
    [] err = ErrDisplayNamePolicyTypeTaken ->
         "Policy display name and policy type already exists"
    [] err = ErrPriorityPolicyTypeTaken ->
         "Policy priority and policy type already exists"

IsMappedStoreError(res, err) ==
  IF err \in UniquenessErrors
  THEN res.kind = "AlreadyExists" /\ res.message = KeyMessage(err)
  ELSE res.kind = "Internal"

\* The observed Create stored the source (call 1) and its insert (call 2)
\* failed.
InsertFailedAfterStore ==
  /\ last.op = "Create"
  /\ Len(last.trace) >= 2
  /\ last.trace[1] = Made("opa", "StorePolicy", last.id, "")
  /\ last.trace[2].op = "Create" /\ last.trace[2].err # ""

WriteFailedAfterStore(call) ==
  /\ call.op = "Update"
  /\ call.input.RegoCode # Nil
  /\ Len(call.trace) >= 4
  /\ call.trace[3] = Made("opa", "StorePolicy", call.id, "")
  /\ call.trace[4].callee = "store" /\ call.trace[4].op = "Update"
  /\ call.trace[4].err # ""

\* The patch gives the row the display name of another row of its type.
TakesDisplayNameOfAnother(table, call) ==
  /\ call.input.DisplayName # Nil
  /\ \E q \in table :
        /\ q.ID # call.id
        /\ q.DisplayName = call.input.DisplayName[1]
        /\ q.PolicyType = TheRow(table, call.id).PolicyType

NewSourceRejected(call) ==
  /\ call.op = "Update"
  /\ call.input.RegoCode # Nil
  /\ Len(call.trace) = 3
  /\ call.trace[3] = Made("opa", "StorePolicy", call.id, ErrInvalidRego)

DeleteAnswered(call) ==
  /\ call.op = "Delete"
  /\ call.trace[1].err # ErrDriver

GetAfterCreate ==
  /\ last.op = "Get"
  /\ last.prev.op = "Create"
  /\ last.prev.result.kind = "ok"

GetFoundRow ==
  /\ last.op = "Get"
  /\ HasRow(rows, last.id)
  /\ Len(last.trace) = 2
  /\ last.trace[1] = Made("store", "Get", last.id, "")

AttemptedKeys(table, call) ==
  IF call.op = "Create"
  THEN LET p == call.input.policy
       IN  [ ID          |-> call.id,
             DisplayName |-> p.DisplayName[1],
             PolicyType  |-> p.PolicyType[1],
             Priority    |-> IF p.Priority = Nil THEN 500 ELSE p.Priority[1] ]
  ELSE LET old == TheRow(table, call.id)
       IN  [ ID          |-> call.id,
             DisplayName |-> IF call.input.DisplayName = Nil
                             THEN old.DisplayName
                             ELSE call.input.DisplayName[1],
             PolicyType  |-> old.PolicyType,
             Priority    |-> IF call.input.Priority = Nil THEN old.Priority
                             ELSE call.input.Priority[1] ]

\* The rows the attempted row must not clash with.
OtherRows(table, call) ==
  IF call.op = "Create" THEN table ELSE { q \in table : q.ID # call.id }

\* The uniqueness keys the attempted row would violate: 1 the id, 2 the
\* (display_name, policy_type) pair, 3 the (priority, policy_type) pair.
ViolatedKeys(table, call) ==
  LET a == AttemptedKeys(table, call)
      others == OtherRows(table, call)
  IN  { k \in 1..3 :
          \E q \in others :
             CASE k = 1 -> q.ID = a.ID
               [] k = 2 -> q.DisplayName = a.DisplayName
                           /\ q.PolicyType = a.PolicyType
               [] k = 3 -> q.Priority = a.Priority
                           /\ q.PolicyType = a.PolicyType }

\* The store error and the service error that identify key k.
KeyError(k) ==
  CASE k = 1 -> ErrPolicyIDTaken
    [] k = 2 -> ErrDisplayNamePolicyTypeTaken
    [] k = 3 -> ErrPriorityPolicyTypeTaken

KeyResult(k, a) ==
  CASE k = 1 -> NewAlreadyExistsError("Policy already exists",
                  "A policy with ID '" \o a.ID \o "' already exists")
    [] k = 2 -> NewAlreadyExistsError(
                  "Policy display name and policy type already exists",
                  "A policy with display name '" \o a.DisplayName
                    \o "' and policy type '" \o a.PolicyType
                    \o "' already exists")
    [] k = 3 -> NewAlreadyExistsError(
                  "Policy priority and policy type already exists",
                  "A policy with priority '" \o ToString(a.Priority)
                    \o "' and policy type '" \o a.PolicyType
                    \o "' already exists")

\* The observed Create or Update reached its row write over table.
ReachedWrite(table, call) ==
  /\ call.op \in { "Create", "Update" }
  /\ StoreCalls(call, call.op) # {}
  /\ call.op = "Update" => HasRow(table, call.id)

WriteError(call) ==
  call.trace[CHOOSE i \in StoreCalls(call, call.op) : TRUE].err

\* C20: a Create or Update whose row would violate exactly one of the three
\* uniqueness keys fails with the store error of that key and returns
\* AlreadyExists with that key's detail (read for a database that answers
\* the write and the probes).
C20_ErrorIdentifiesKey ==
  [][ \A k \in 1..3 :
        ( /\ ReachedWrite(rows, last')
          /\ ViolatedKeys(rows, last') = { k }
          /\ WriteError(last') \notin { ErrDriver, ErrDuplicatedKey } )
        => /\ WriteError(last') = KeyError(k)
           /\ last'.result = KeyResult(k, AttemptedKeys(rows, last'))
           /\ rows' = rows ]_vars

\* An Update that takes the priority, and only the priority, of another row.
C20_Witness ==
  /\ ReachedWrite(rows, last)
  /\ last.op = "Update"
  /\ ViolatedKeys(rows, last) = { 3 }
  /\ WriteError(last) = ErrPriorityPolicyTypeTaken
  /\ last.result.kind = "AlreadyExists"
  /\ last.result.message = "Policy priority and policy type already exists"

\* ================================================ claims on the policy store

\* C21: in every state reached by Create, Update and Delete calls no two
\* rows share an id, no two rows share (display_name, policy_type) and no
\* two rows share (priority, policy_type).
C21_KeysUnique ==
  \A p, q \in rows :
     p # q => /\ p.ID # q.ID
              /\ ~(p.DisplayName = q.DisplayName /\ p.PolicyType = q.PolicyType)
              /\ ~(p.Priority = q.Priority /\ p.PolicyType = q.PolicyType)

\* Two rows of different policy types with the same display name and the
\* same priority, the second one inserted by the last call.
C21_Witness ==
  /\ last.op = "store.Create" /\ last.err = ""
  /\ \E p, q \in rows :
        /\ p.ID = last.id /\ q.ID # p.ID
        /\ p.PolicyType # q.PolicyType
        /\ p.DisplayName = q.DisplayName
        /\ p.Priority = q.Priority

\* ======================================== claims on the service's inputs

\* The observed Update passed validatePatchInput and found its row in table.
UpdateFoundRow(table, call) ==
  /\ call.op = "Update"
  /\ HasRow(table, call.id)
  /\ call.trace # <<>>
  /\ call.trace[1] = Made("store", "Get", call.id, "")

\* The fields a patch must not change, with the message that names each,
\* and the value each has for row q.
ImmutableMessage ==
  [ Path       |-> "path cannot be updated",
    Id         |-> "id cannot be updated",
    PolicyType |-> "policy_type is immutable",
    CreateTime |-> "create_time cannot be updated",
    UpdateTime |-> "update_time cannot be updated" ]

CurrentValue(q) ==
  [ Path       |-> "policies/" \o q.ID,
    Id         |-> q.ID,
    PolicyType |-> q.PolicyType,
    CreateTime |-> q.CreateTime,
    UpdateTime |-> q.UpdateTime ]

Supplied(patch) == { f \in DOMAIN ImmutableMessage : patch[f] # Nil }

Differing(patch, q) ==
  { f \in Supplied(patch) : patch[f][1] # CurrentValue(q)[f] }

\* C22: an Update whose patch supplies id, path, policy_type, create_time or
\* update_time with a value other than the current one returns
\* InvalidArgument with the message of such a field and leaves the table,
\* update_time included, and the engine as they were; a patch that supplies
\* such fields with their current values only is not refused for them, and
\* when the Update succeeds its mutable fields are in the row.
C22_ImmutableFields ==
  [][ UpdateFoundRow(rows, last') =>
        LET patch == last'.input
            q     == TheRow(rows, last'.id)
        IN  /\ Differing(patch, q) # {}
               => /\ last'.result.kind = "InvalidArgument"
                  /\ \E f \in Differing(patch, q) :
                        last'.result.message = ImmutableMessage[f]
                  /\ rows' = rows
                  /\ engine' = engine
            /\ ( Supplied(patch) # {} /\ Differing(patch, q) = {} )
               => /\ last'.result.kind = "InvalidArgument"
                     => last'.result.message = "Invalid Rego code"
                  /\ ( last'.result.kind = "ok" /\ patch.DisplayName # Nil )
                     => /\ TheRow(rows', last'.id).DisplayName
                             = patch.DisplayName[1]
                        /\ last'.result.policy.DisplayName = patch.DisplayName ]_vars

\* A patch refused for its update_time, which an earlier Update had moved.
C22_Witness ==
  /\ UpdateFoundRow(rows, last)
  /\ TheRow(rows, last.id).UpdateTime # TheRow(rows, last.id).CreateTime
  /\ Differing(last.input, TheRow(rows, last.id)) = { "UpdateTime" }
  /\ last.result.kind = "InvalidArgument"
  /\ last.result.message = "update_time cannot be updated"

\* The columns a patch field writes.
PatchColumns ==
  { "DisplayName", "Description", "LabelSelector", "Priority", "Enabled" }

\* C23: a successful Update leaves every other row alone and in its row
\* keeps id, policy_type and create_time; a column whose field is absent
\* from the patch keeps its value and one whose field is present takes it
\* (package_name and update_time may change); an Update of an id without a
\* row, its patch being well formed, returns NotFound and changes nothing.
C23_UpdateFrame ==
  [][ /\ ( last'.op = "Update" /\ last'.result.kind = "ok" )
         => /\ HasRow(rows, last'.id) /\ HasRow(rows', last'.id)
            /\ LET q     == TheRow(rows, last'.id)
                   w     == TheRow(rows', last'.id)
                   patch == last'.input
               IN  /\ rows' \ { w } = rows \ { q }
                   /\ w.ID = q.ID
                   /\ w.PolicyType = q.PolicyType
                   /\ w.CreateTime = q.CreateTime
                   /\ \A c \in PatchColumns :
                         w[c] = IF patch[c] = Nil THEN q[c] ELSE patch[c][1]
      /\ ( /\ last'.op = "Update" /\ last'.trace # <<>>
           /\ ~HasRow(rows, last'.id) )
         => /\ last'.result = NewPolicyNotFoundError(last'.id)
            /\ rows' = rows
            /\ engine' = engine ]_vars

\* A description and a selector are written into a row that an earlier
\* Update had disabled: enabled stays false.
C23_Witness ==
  /\ last.op = "Update" /\ last.result.kind = "ok"
  /\ last.input.Description # Nil /\ last.input.Enabled = Nil
  /\ TheRow(rows, last.id).Description = "d"
  /\ TheRow(rows, last.id).LabelSelector = SelectorProd
  /\ ~TheRow(rows, last.id).Enabled
  /\ TheRow(rows, last.id).UpdateTime # TheRow(rows, last.id).CreateTime

\* The observed Update carried the empty patch to a row of table, and the
\* database answered its read and its write.
EmptyPatchApplied(table, call) ==
  /\ UpdateFoundRow(table, call)
  /\ call.input = EmptyPatch
  /\ \A i \in StoreCalls(call, "Update") : call.trace[i].err # ErrDriver

Matching(listing) ==
  { p \in rows :
      /\ listing.opts.Filter.PolicyType # Nil
           => p.PolicyType = listing.opts.Filter.PolicyType[1]
      /\ listing.opts.Filter.Enabled # Nil
           => p.Enabled = listing.opts.Filter.Enabled[1] }

PageSizeOf(listing) ==
  IF listing.opts.PageSize > 0 THEN listing.opts.PageSize ELSE 50

RECURSIVE Listed(_)
Listed(pages) ==
  IF pages = <<>> THEN <<>>
  ELSE Listed(SubSeq(pages, 1, Len(pages) - 1)) \o pages[Len(pages)].Policies

Complete(listing) == listing.pages[Len(listing.pages)].NextPageToken = ""

\* C25: a listing of an unchanged table that follows the page tokens with the
\* same page size N, filter and ordering returns at most N rows per page and
\* no row twice, in the order of the listing; a page carries a token exactly
\* when matching rows remain after it, the token of offset + N; and when the
\* last page carries none every matching row has been returned.
C25_PagesCoverOnce ==
  last.op = "List" =>
    LET n     == PageSizeOf(last)
        pages == last.pages
        all   == Listed(pages)
    IN  /\ \A i \in DOMAIN pages :
             /\ Len(pages[i].Policies) <= n
             /\ pages[i].NextPageToken # ""
                  <=> i * n < Cardinality(Matching(last))
             /\ pages[i].NextPageToken # ""
                  => pages[i].NextPageToken = EncodeToken(i * n)
        /\ \A a, b \in DOMAIN all : a < b => all[a] # all[b]
        /\ \A a, b \in DOMAIN all :
             a < b => ~Before(last.opts.OrderBy, all[b], all[a])
        /\ Complete(last) => { all[a] : a \in DOMAIN all } = Matching(last)

\* ============================================ claims on the inputs of Create

\* A Create input the service must refuse: display_name or rego_code missing
\* or blank, policy_type missing, priority outside 1..1000, or a client's id
\* that is not well formed.
BlankCode(code) == \A i \in DOMAIN code : \A j \in DOMAIN code[i] : code[i][j] = " "

InvalidCreate(request) ==
  \/ request.policy.DisplayName = Nil
  \/ request.policy.DisplayName # Nil /\ request.policy.DisplayName[1] \in { "", " " }
  \/ request.policy.RegoCode = Nil
  \/ request.policy.RegoCode # Nil /\ BlankCode(request.policy.RegoCode[1])
  \/ request.policy.PolicyType = Nil
  \/ request.policy.Priority # Nil /\ request.policy.Priority[1] \notin 1..1000
  \/ request.clientID \notin { Nil, Some("") } /\ request.clientID[1] \notin { PolicyIDs[i] : i \in DOMAIN PolicyIDs }

CreateObserved == last = NoCall /\ last' # NoCall /\ last'.op = "Create"

\* C26: a Create with an invalid input returns InvalidArgument, calls neither
\* the engine nor the store, inserts no row and stores no source.
C26_InvalidCreateWritesNothing ==
  [][ CreateObserved /\ InvalidCreate(last'.input)
        => /\ last'.result.kind = "InvalidArgument"
           /\ last'.trace = <<>>
           /\ rows' = rows
           /\ engine' = engine ]_vars

\* Each kind of invalid input has been refused, one of them over a table
\* that holds a row.
C26_Witness ==
  /\ last # NoCall /\ last.op = "Create"
  /\ InvalidCreate(last.input)
  /\ last.input.policy.DisplayName = Some(" ")
  /\ last.result.kind = "InvalidArgument"
  /\ rows # {}

\* ======================================== claims on priority and page size

InRange(n, lo, hi) == lo <= n /\ n <= hi

PriorityRefused(call) ==
  /\ call.result.kind = "InvalidArgument"
  /\ call.result.message = "priority must be between 1 and 1000"

UpdateObserved == last = NoCall /\ last' # NoCall /\ last'.op = "Update"

ListObserved == last = NoCall /\ last' # NoCall /\ last'.op = "List"

\* C27: Create and Update refuse a supplied priority with InvalidArgument
\* exactly when it lies outside 1..1000; a Create that succeeds stores the
\* supplied priority, or 500 when none is supplied, and the supplied enabled,
\* or true when none is supplied; ListPolicies refuses a page size with
\* InvalidArgument exactly when it lies outside 1..1000.
C27_PriorityAndPageSizeBounds ==
  [][ /\ CreateObserved /\ last'.input.policy.Priority # Nil
           /\ ~InvalidCreate([ last'.input EXCEPT !.policy.Priority = Nil ])
        => /\ PriorityRefused(last') <=> ~InRange(last'.input.policy.Priority[1], 1, 1000)
           /\ last'.result.kind = "InvalidArgument" => PriorityRefused(last')
      /\ UpdateObserved /\ last'.input.Priority # Nil
        => /\ PriorityRefused(last') <=> ~InRange(last'.input.Priority[1], 1, 1000)
           /\ last'.result.kind = "InvalidArgument" => PriorityRefused(last')
      /\ CreateObserved /\ last'.result.kind = "ok"
        => \E q \in rows' \ rows :
             /\ q.ID = last'.id
             /\ q.Priority = IF last'.input.policy.Priority # Nil
                             THEN last'.input.policy.Priority[1] ELSE 500
             /\ q.Enabled = IF last'.input.policy.Enabled # Nil
                            THEN last'.input.policy.Enabled[1] ELSE TRUE
      /\ ListObserved
        => (last'.result.kind = "InvalidArgument"
              <=> last'.input # Nil /\ ~InRange(last'.input[1], 1, 1000))
    ]_vars

\* A Create without priority and enabled has stored 500 and true.
C27_Witness ==
  /\ last # NoCall /\ last.op = "Create"
  /\ last.input.policy.Priority = Nil
  /\ last.input.policy.Enabled = Nil
  /\ last.result.kind = "ok"
  /\ \E q \in rows : q.ID = last.id /\ q.Priority = 500 /\ q.Enabled

\* ================================================ evaluation under cancellation

\* The caller cancels the request's ctx while EvaluateRequest is running.
Cancel ==
  /\ pc # "done"
  /\ ~cancelled
  /\ cancelled' = TRUE
  /\ UNCHANGED << rows, engine, last, pipelineVars, requests, servers, process >>

\* A call made with a cancelled ctx returns an error: store.List (line 57,
\* WithContext) and EvaluatePolicy (line 87).
HonoursCancel ==
  cancelled =>
    /\ pc = "start" => pc' = "done"
    /\ MadeCall => TheCall.outcome.err

StepUnderCancel(results) == Step(results) /\ HonoursCancel

InitCancel == Init

NextCancel ==
  \/ Cancel
  \/ StepUnderCancel(EngineResults)

SpecCancel == InitCancel /\ [][NextCancel]_vars

\* C29: an evaluation whose ctx was cancelled before EvaluateRequest returned
\* returns an error and no response.
C29_CancelledNoResponse ==
  cancelled /\ pc = "done" => result.kind # "response"

\* ================================= the policy service's calls, step by step

\* The calls of the policy service run without a lock: each call to the
\* engine and to the database is a step of its own, and the steps of the
\* calls in flight interleave. A call in flight: its operation, its position,
\* its input, the row it is about to write and the source it fetched.
Requesters == { "r1", "r2" }

RaceID == PolicyIDs[1]

InFlight(op, input) ==
  [ op |-> op, pc |-> "start", input |-> input, dbPolicy |-> Nil, old |-> Nil ]

At(r, position) == [ r EXCEPT !.pc = position ]

\* CreatePolicy: StorePolicy, store.Create, and DeletePolicy when the insert
\* failed.
CreateStep(i) ==
  LET r        == requests[i]
      policy   == r.input[1]
      dbPolicy == [ APIToDBModel(policy, RaceID) EXCEPT
                      !.PackageName = ExtractPackageName(policy.RegoCode[1]).name ]
      created  == Create(rows, dbPolicy, 1, "none", 0)
  IN
  /\ r.op = "Create"
  /\ r.pc \in { "start", "insert", "cleanup" }
  /\ IF r.pc = "start"
     THEN /\ engine' = StorePolicy(engine, RaceID, policy.RegoCode[1], "none").sources
          /\ rows' = rows
          /\ requests' = [ requests EXCEPT ![i] = At(r, "insert") ]
     ELSE IF r.pc = "insert"
     THEN /\ rows' = created.rows
          /\ engine' = engine
          /\ requests' = [ requests EXCEPT ![i] =
                             At(r, IF created.err = "" THEN "done" ELSE "cleanup") ]
     ELSE /\ engine' = DeletePolicyFromOPA(engine, RaceID, "none").sources
          /\ rows' = rows
          /\ requests' = [ requests EXCEPT ![i] = At(r, "done") ]
  /\ UNCHANGED << last, pipelineVars, cancelled, servers, process >>

\* UpdatePolicy: store.Get and the merge; with rego_code, GetPolicy and
\* StorePolicy; store.Update; and StorePolicy of the old source when the
\* write failed.
UpdateStep(i) ==
  LET r           == requests[i]
      patch       == r.input[1]
      regoChanged == patch.RegoCode # Nil
      found       == Get(rows, RaceID, "none")
      merged      == mergePolicyOntoPolicy(patch, DBToAPIModel(found.policy[1]))
      packageName == IF regoChanged
                     THEN ExtractPackageName(patch.RegoCode[1]).name
                     ELSE found.policy[1].PackageName
      dbPolicy    == [ APIToDBModel(merged, RaceID) EXCEPT !.PackageName = packageName ]
      old         == GetPolicyFromOPA(engine, RaceID, "none")
      updated     == Update(rows, r.dbPolicy[1], 1, "none", 0)
  IN
  /\ r.op = "Update"
  /\ r.pc \in { "start", "fetch", "store", "write", "restore" }
  /\ IF r.pc = "start"
     THEN /\ UNCHANGED << rows, engine >>
          /\ requests' = [ requests EXCEPT ![i] =
               IF found.err # "" THEN At(r, "done")
               ELSE [ r EXCEPT !.pc = IF regoChanged THEN "fetch" ELSE "write",
                               !.dbPolicy = Some(dbPolicy) ] ]
     ELSE IF r.pc = "fetch"
     THEN /\ UNCHANGED << rows, engine >>
          /\ requests' = [ requests EXCEPT ![i] =
               IF old.err # "" THEN At(r, "done")
               ELSE [ r EXCEPT !.pc = "store", !.old = old.raw ] ]
     ELSE IF r.pc = "store"
     THEN /\ engine' = StorePolicy(engine, RaceID, patch.RegoCode[1], "none").sources
          /\ rows' = rows
          /\ requests' = [ requests EXCEPT ![i] = At(r, "write") ]
     ELSE IF r.pc = "write"
     THEN /\ rows' = updated.rows
          /\ engine' = engine
          /\ requests' = [ requests EXCEPT ![i] =
               At(r, IF updated.err # "" /\ regoChanged THEN "restore" ELSE "done") ]
     ELSE /\ engine' = StorePolicy(engine, RaceID, r.old[1], "none").sources
          /\ rows' = rows
          /\ requests' = [ requests EXCEPT ![i] = At(r, "done") ]
  /\ UNCHANGED << last, pipelineVars, cancelled, servers, process >>

\* DeletePolicy: store.Delete, then DeletePolicy of the engine.
DeleteStep(i) ==
  LET r       == requests[i]
      deleted == Delete(rows, RaceID, "none")
  IN
  /\ r.op = "Delete"
  /\ r.pc \in { "start", "remove" }
  /\ IF r.pc = "start"
     THEN /\ rows' = deleted.rows
          /\ engine' = engine
          /\ requests' = [ requests EXCEPT ![i] =
                             At(r, IF deleted.err = "" THEN "remove" ELSE "done") ]
     ELSE /\ engine' = DeletePolicyFromOPA(engine, RaceID, "none").sources
          /\ rows' = rows
          /\ requests' = [ requests EXCEPT ![i] = At(r, "done") ]
  /\ UNCHANGED << last, pipelineVars, cancelled, servers, process >>

RaceRequests ==
  { InFlight("Create", Some(WellFormed)),
    InFlight("Create", Some([ WellFormed EXCEPT !.RegoCode = Some(RegoTest2) ])),
    InFlight("Update", Some([ EmptyPatch EXCEPT !.RegoCode = Some(RegoTest2) ])),
    InFlight("Update", Some([ EmptyPatch EXCEPT !.RegoCode = Some(RegoTest1) ])),
    InFlight("Update", Some([ EmptyPatch EXCEPT !.DisplayName = Some("n2") ])),
    InFlight("Delete", Nil) }

\* The registry before the calls: empty, or holding the policy (created by
\* an earlier CreatePolicy that returned).
Registered == CreateOutcome({}, EmptyMap, WellFormed, Some(RaceID), Quiet)

InitRace ==
  /\ \/ rows = {} /\ engine = EmptyMap
     \/ rows = Registered.rows /\ engine = Registered.sources
  /\ last = NoCall
  /\ req = [ ServiceInstance |-> DocEmpty, RequestLabels |-> EmptyMap ]
  /\ InitPipeline
  /\ cancelled = FALSE
  /\ requests \in [ Requesters -> RaceRequests ]
  /\ servers = NotStarted
  /\ process = NotRunning

NextRace ==
  \E i \in Requesters :
    \/ CreateStep(i)
    \/ UpdateStep(i)
    \/ DeleteStep(i)

SpecRace == InitRace /\ [][NextRace]_vars

\* ================================================ claims on concurrent calls

AllReturned ==
  /\ DOMAIN requests # {}
  /\ \A i \in DOMAIN requests : requests[i].pc = "done"

ServerNames == { "public", "engine" }

RunErrors == { "listen failed", "shutdown failed" }

\* A variant with room for one error only.
ErrChanCapOfOne == Cardinality({ "public" })

\* make(chan error, len(servers))
ErrChanCap == Cardinality(ServerNames)

Goroutine(position, err) == [ pc |-> position, err |-> err ]

\* wg's counter: the goroutines that have not reached wg.Done.
WaitGroup == Cardinality({ s \in ServerNames : servers.run[s].pc # "done" })

\* Lines 102-121: the context, the channel, one goroutine per server.
Started ==
  [ main |-> "range", ctx |-> FALSE, signalled |-> FALSE,
    run |-> [ s \in ServerNames |-> Goroutine("run", "") ],
    errChan |-> <<>>, closed |-> FALSE, firstErr |-> Nil, reported |-> <<>> ]

Running == servers.main # "idle"

ServersFrame ==
  UNCHANGED << rows, engine, last, pipelineVars, cancelled, requests, process >>

\* SIGINT or SIGTERM arrives: signal.NotifyContext cancels ctx.
Signal ==
  /\ Running
  /\ servers.main = "range"
  /\ ~servers.signalled
  /\ servers' = [ servers EXCEPT !.signalled = TRUE, !.ctx = TRUE ]
  /\ ServersFrame

\* server.Run returns an error (line 112), whether ctx is cancelled or not.
RunFails(s, err) ==
  /\ Running
  /\ servers.run[s].pc = "run"
  /\ servers' = [ servers EXCEPT !.run[s] = Goroutine("send", err) ]
  /\ ServersFrame

\* server.Run returns nil; the deferred wg.Done runs.
RunReturns(s) ==
  /\ Running
  /\ servers.run[s].pc = "run"
  /\ servers' = [ servers EXCEPT !.run[s] = Goroutine("done", "") ]
  /\ ServersFrame

\* Line 113: errChan <- err, possible when the buffer has room (the
\* receiver takes from the buffer); then the deferred wg.Done.
Send(s) ==
  /\ Running
  /\ servers.run[s].pc = "send"
  /\ Len(servers.errChan) < ErrChanCap
  /\ servers' = [ servers EXCEPT
                    !.errChan = Append(@, servers.run[s].err),
                    !.reported = Append(@, servers.run[s].err),
                    !.run[s] = Goroutine("done", servers.run[s].err) ]
  /\ ServersFrame

\* Lines 118-121: wg.Wait returns, errChan is closed.
CloseErrChan ==
  /\ Running
  /\ ~servers.closed
  /\ WaitGroup = 0
  /\ servers' = [ servers EXCEPT !.closed = TRUE ]
  /\ ServersFrame

\* Lines 123-132: the range loop receives an error; the first one is kept
\* and cancels ctx.
Receive ==
  /\ Running
  /\ servers.main = "range"
  /\ servers.errChan # <<>>
  /\ servers' = [ servers EXCEPT
                    !.errChan = Tail(@),
                    !.firstErr = IF @ = Nil THEN Some(Head(servers.errChan)) ELSE @,
                    !.ctx = IF servers.firstErr = Nil THEN TRUE ELSE @ ]
  /\ ServersFrame

\* Lines 124, 134 and 104: the channel is closed and drained, the loop ends,
\* runServers returns firstErr and the deferred cancel runs.
Return ==
  /\ Running
  /\ servers.main = "range"
  /\ servers.errChan = <<>>
  /\ servers.closed
  /\ servers' = [ servers EXCEPT !.main = "returned", !.ctx = TRUE ]
  /\ ServersFrame

InitServers ==
  /\ rows = {}
  /\ engine = EmptyMap
  /\ last = NoCall
  /\ req = [ ServiceInstance |-> DocEmpty, RequestLabels |-> EmptyMap ]
  /\ InitPipeline
  /\ cancelled = FALSE
  /\ requests = <<>>
  /\ servers = Started
  /\ process = NotRunning

NextServers ==
  \/ Signal
  \/ \E s \in ServerNames, err \in RunErrors : RunFails(s, err)
  \/ \E s \in ServerNames : RunReturns(s)
  \/ \E s \in ServerNames : Send(s)
  \/ CloseErrChan
  \/ Receive
  \/ Return

\* The goroutines and runServers itself keep running; a server's Run returns
\* once ctx is cancelled.
FairServers ==
  /\ \A s \in ServerNames : WF_vars(Send(s))
  /\ \A s \in ServerNames : WF_vars(servers.ctx /\ RunReturns(s))
  /\ WF_vars(CloseErrChan)
  /\ WF_vars(Receive)
  /\ WF_vars(Return)

SpecServers == InitServers /\ [][NextServers]_vars /\ FairServers

\* ====================================================== claims on runServers

RunServersReturned == Running /\ servers.main = "returned"

RunReturnedError == Running /\ \E s \in ServerNames : servers.run[s].pc = "send"

ServersSafe ==
  Running =>
    /\ servers.signalled => servers.ctx
    /\ servers.firstErr # Nil => servers.ctx
    /\ \A s \in ServerNames :
         servers.run[s].pc = "send" => Len(servers.errChan) < ErrChanCap
    /\ servers.main = "returned" =>
         /\ \A s \in ServerNames : servers.run[s].pc = "done"
         /\ servers.ctx
         /\ servers.firstErr = IF servers.reported = <<>> THEN Nil
                               ELSE Some(servers.reported[1])
         /\ servers.reported = <<>> <=>
              \A s \in ServerNames : servers.run[s].err = ""

\* C30: both servers run at once; a signal cancels ctx at once and an error
\* returned by a server's Run leads to ctx being cancelled; runServers
\* returns only when every Run has returned, with the first error sent to
\* errChan, or nil when no Run returned an error; a goroutine that is to
\* report its error always finds room in errChan.
C30_RunServers ==
  /\ []ServersSafe
  /\ RunReturnedError ~> (Running /\ servers.ctx)

\* runServers has returned the first of the two errors that the two servers
\* reported, without a signal.
C30_Witness ==
  /\ RunServersReturned
  /\ Len(servers.reported) = 2
  /\ servers.firstErr = Some(servers.reported[1])
  /\ servers.reported[1] # servers.reported[2]
  /\ ~servers.signalled

\* ========================================== claims on the store's error mapping

ProbeCalled == last # NoCall /\ last.op = "mapUniqueConstraintError"

\* The uniqueness keys that the attempted row violates in the table as the
\* probes read it; for an update the row of the same id does not count.
ProbedKeys ==
  LET a      == last.attempted
      others == IF last.isUpdate THEN { q \in rows : q.ID # a.ID } ELSE rows
  IN  { k \in 1..3 :
          \E q \in others :
             CASE k = 1 -> q.ID = a.ID
               [] k = 2 -> q.DisplayName = a.DisplayName /\ q.PolicyType = a.PolicyType
               [] k = 3 -> q.Priority = a.Priority /\ q.PolicyType = a.PolicyType }

FirstKey(keys) == CHOOSE k \in keys : \A j \in keys : k <= j

\* C31: when the write failed on a unique index and the probes answer, the
\* store reports the first violated key in the order id, (display_name,
\* policy_type), (priority, policy_type); the probes of an update do not
\* count the updated row; when no probe finds a row the write's own error is
\* returned and the service answers Internal.
C31_FirstViolatedKey ==
  ( /\ ProbeCalled
    /\ last.err \in { ErrDuplicatedKey, "UNIQUE constraint failed" }
    /\ last.failing = 0 )
  => /\ ProbedKeys # {} =>
          /\ last.mapped = KeyError(FirstKey(ProbedKeys))
          /\ last.result.kind = "AlreadyExists"
     /\ ProbedKeys = {} =>
          /\ last.mapped = last.err
          /\ last.result.kind = "Internal"

\* An update that takes the display name and the priority of another row,
\* reported as the display name's; and an update that keeps its own.
C31_Witness ==
  /\ ProbeCalled
  /\ last.isUpdate
  /\ last.err = ErrDuplicatedKey
  /\ last.failing = 0
  /\ ProbedKeys = { 2, 3 }
  /\ last.attempted.ID \in { q.ID : q \in rows }
  /\ last.mapped = ErrDisplayNamePolicyTypeTaken

\* =============================================== claims on MarkChangedFields

\* The document has the key path.
RECURSIVE HasPath(_, _)
HasPath(doc, ks) ==
  /\ ks[1] \in DOMAIN doc
  /\ Len(ks) > 1 => IsObj(doc[ks[1]]) /\ HasPath(doc[ks[1]].m, Tail(ks))

\* Every proper prefix of the key path is an object on both sides.
ObjectsAbove(before, after, ks) ==
  \A n \in 1..(Len(ks) - 1) :
     /\ HasPath(before, SubSeq(ks, 1, n)) /\ IsObj(ValueAt(before, SubSeq(ks, 1, n)))
     /\ IsObj(ValueAt(after, SubSeq(ks, 1, n)))

\* The dotted paths that a change from before to after freezes.
ChangedPaths(before, after) ==
  { PathString(ks) : ks \in
      { ks \in KeyPaths(after) :
          /\ ObjectsAbove(before, after, ks)
          /\ IF IsObj(ValueAt(after, ks))
             THEN ~HasPath(before, ks) \/ ~IsObj(ValueAt(before, ks))
             ELSE \/ ~HasPath(before, ks)
                  \/ Sprintf(ValueAt(before, ks)) # Sprintf(ValueAt(after, ks)) } }

AppliedOutputSpec ==
  /\ MadeCall
  /\ CarriesOutputSpec(TheCall)
  /\ idx' = idx + 1

\* C32: applying an output_spec adds to the frozen set exactly the changed
\* paths (a non-object key of the output that is new or differs as a string;
\* an object key that is new or replaces a non-object, as a whole; below a
\* key that is an object on both sides, the same rule), attributes them to
\* the policy and leaves the other attributions alone.
C32_MarksExactlyChanged ==
  [][ AppliedOutputSpec =>
        LET marked == ChangedPaths(currentSpec, OutputSpecOf(TheCall))
        IN  /\ immutableFields' = immutableFields \cup marked
            /\ DOMAIN setBy' = DOMAIN setBy \cup marked
            /\ \A p \in marked : setBy'[p] = TheCall.policy
            /\ \A p \in DOMAIN setBy \ marked : setBy'[p] = setBy[p] ]_vars

\* A nested field was changed below an object that stayed an object, after a
\* policy had frozen other paths.
C32_Witness ==
  /\ calls # <<>>
  /\ CarriesOutputSpec(calls[Len(calls)])
  /\ calls[Len(calls)].input.spec = DocAB1
  /\ OutputSpecOf(calls[Len(calls)]) = DocAB2
  /\ idx = Len(calls) + 1
  /\ "a.b" \in immutableFields
  /\ "a" \notin immutableFields
  /\ setBy["a.b"] = calls[Len(calls)].policy

\* ===================================== claims on what a policy leaves alone

\* The step passed over the policy without calling the engine.
SkippedByLabels == pc = "loop" /\ idx' = idx + 1 /\ calls' = calls

\* The step called the engine and its result was undefined.
WasUndefined == MadeCall /\ ~TheCall.outcome.err /\ ~TheCall.outcome.Defined

\* The step called the engine and the decision, defined, was applied without
\* an output_spec.
AppliedWithoutOutputSpec ==
  /\ MadeCall
  /\ IsDefined(TheCall)
  /\ ~CarriesOutputSpec(TheCall)
  /\ idx' = idx + 1

\* C33: a policy skipped by its label selector, one whose result is
\* undefined and one whose decision has no output_spec leave the current
\* spec and the constraint context as they were; the first two also leave
\* the selected provider; a decision without a non-empty selected_provider
\* leaves the selected provider.
C33_Frame ==
  [][ /\ SkippedByLabels \/ WasUndefined \/ AppliedWithoutOutputSpec
        => UNCHANGED << currentSpec, immutableFields, setBy >>
      /\ SkippedByLabels \/ WasUndefined
        => UNCHANGED selectedProvider
      /\ MadeCall /\ IsDefined(TheCall) /\ ~CarriesProvider(TheCall)
        => UNCHANGED selectedProvider ]_vars

\* A decision with an empty selected_provider was applied after a provider
\* had been selected and fields frozen.
C33_Witness ==
  /\ pc = "loop"
  /\ Len(calls) >= 2
  /\ calls[Len(calls)].outcome = EngineDefined([selected_provider |-> Str("")])
  /\ selectedProvider # ""
  /\ immutableFields # {}

\* ========================================= claims on Update without rego_code

Significant(code) ==
  SelectSeq([ i \in DOMAIN code |-> TrimSpace(code[i]) ],
            LAMBDA line : line # <<>> /\ Head(line) # "#")

\* What follows the keyword and its white space on a line, up to a #, trimmed.
DeclaredName(line) ==
  LET rest == SubSeq(line, 2, Len(line))
      hash == IndexOf(rest, "#")
  IN  TrimSpace(IF hash # 0 THEN SubSeq(rest, 1, hash - 1) ELSE rest)

IsDeclaration(line) ==
  /\ Head(line) = "package"
  /\ Len(line) > 1 => line[2] \in WhiteSpace

Extraction == last # NoCall /\ last.op = "ExtractPackageName"

\* C35: ExtractPackageName decides on the first line that is neither blank
\* nor a comment: the keyword package, white space and a name yield the name
\* without trailing comment and white space; the keyword without a name
\* yields EmptyPackageDeclaration; a line that does not begin with the
\* keyword yields NoPackageDeclaration, whatever the later lines are.
C35_FirstLineDecides ==
  ( Extraction /\ Significant(last.input) # <<>> )
  => LET first == Significant(last.input)[1]
     IN  IF ~IsDeclaration(first)
         THEN last.result = Extracted("", ErrNoPackageDeclaration)
         ELSE IF DeclaredName(first) = <<>>
         THEN last.result = Extracted("", ErrEmptyPackageDeclaration)
         ELSE last.result = Extracted(Join(DeclaredName(first)), "")

\* ============================================ claims on the size of the list

\* The policies the for loop has yet to visit.
StillAhead(q) == \E i \in idx..Len(policies) : policies[i] = q

\* C36: from the listing to the response, every enabled policy of the
\* registry whose label selector holds of the request has been sent to the
\* engine or is still to be visited by the loop, however many policies there
\* are; so in a returned response (where nothing is ahead) none is left out.
C36_NoPolicyLeftOut ==
  (pc = "loop" \/ Returned) =>
    \A q \in rows :
      q.Enabled /\ SelectorHolds(q.LabelSelector, req.RequestLabels)
        => SentToEngine(q) \/ StillAhead(q)

\* ========================================== claims on errors of the pipeline

\* The calls of the engine that returned an error.
FailedCalls == { i \in DOMAIN calls : calls[i].outcome = EngineError }

\* The list of policies was never fetched.
ListFailed == pc = "done" /\ idx = 0

\* C37: an error of the engine for a policy ends the evaluation there with an
\* Internal error naming that policy (it is the last call, the loop has not
\* moved past the policy, no response is produced), and a failure to fetch
\* the list of policies ends it with an Internal error as well.
C37_ErrorsAbort ==
  /\ \A i \in FailedCalls :
       /\ i = Len(calls)
       /\ pc = "done"
       /\ idx <= Len(policies) /\ policies[idx].ID = calls[i].policy
       /\ result = NewInternalError("Failed to evaluate policy '" \o calls[i].policy \o "'")
  /\ ListFailed => result = NewInternalError("Failed to retrieve policies")

\* The engine fails for a policy after an earlier policy was evaluated.
C37_Witness ==
  /\ Len(calls) >= 2
  /\ Len(calls) \in FailedCalls
  /\ calls[1].outcome.Defined
  /\ result.kind = "Internal"

\* ======================================================================= run

\* main.go 27-99. process holds run's state: pc (the statement it is at),
\* timeout (cfg.OPA.Timeout), store (whether NewStore has returned), deferred
\* (the stack of deferred calls), ran (the deferred calls run so far, in
\* order) and exit (the code handed to os.Exit, once there is one).
Timeouts == { "10s", "500ms", "", "30" }

\* time.ParseDuration: a number with a unit; the empty string and a number
\* without a unit are errors.
ParseDuration(s) == IF s \in { "10s", "500ms" } THEN "" ELSE "invalid duration"

RunFrame ==
  UNCHANGED << rows, engine, last, pipelineVars, cancelled, requests >>

RunAt(position) == process.pc = position

\* return code: the deferred calls run next, last deferred first.
ReturnFrom(code) == [ process EXCEPT !.pc = "deferred", !.exit = Some(code) ]

\* Lines 33-37: config.Load.
LoadConfig(ok, timeout) ==
  /\ RunAt("load")
  /\ process' = IF ok THEN [ process EXCEPT !.pc = "initdb", !.timeout = timeout ]
                ELSE ReturnFrom(1)
  /\ UNCHANGED servers
  /\ RunFrame

\* Lines 40-52: store.InitDB, store.NewStore and the deferred dataStore.Close.
InitDB(ok) ==
  /\ RunAt("initdb")
  /\ process' = IF ok
                THEN [ process EXCEPT !.pc = "parse", !.store = TRUE,
                                      !.deferred = Append(@, "dataStore.Close") ]
                ELSE ReturnFrom(1)
  /\ UNCHANGED servers
  /\ RunFrame

\* Lines 55-58: time.ParseDuration; on an error log.Fatalf, which prints and
\* calls os.Exit(1): the process ends there and no deferred call runs.
ParseTimeout ==
  /\ RunAt("parse")
  /\ process' = IF ParseDuration(process.timeout) = ""
                THEN [ process EXCEPT !.pc = "listen public" ]
                ELSE [ process EXCEPT !.pc = "exited", !.exit = Some(1) ]
  /\ UNCHANGED servers
  /\ RunFrame

\* Lines 70-75 and 84-89: net.Listen and the deferred Close of the listener.
Listen(name, next, ok) ==
  /\ RunAt("listen " \o name)
  /\ process' = IF ok
                THEN [ process EXCEPT !.pc = next,
                                      !.deferred = Append(@, name \o "Listener.Close") ]
                ELSE ReturnFrom(1)
  /\ servers' = IF ok /\ next = "runServers" THEN Started ELSE servers
  /\ RunFrame

\* Line 94, inside the call: a step of runServers.
InRunServers ==
  /\ RunAt("runServers")
  /\ NextServers

\* Lines 94-98: runServers has returned; 1 on an error, 0 otherwise.
RunServersDone ==
  /\ RunAt("runServers")
  /\ servers.main = "returned"
  /\ process' = ReturnFrom(IF servers.firstErr # Nil THEN 1 ELSE 0)
  /\ UNCHANGED servers
  /\ RunFrame

\* The deferred calls of run, the last deferred first (47-51, 75, 89).
RunDeferred ==
  /\ RunAt("deferred")
  /\ process.deferred # <<>>
  /\ process' = [ process EXCEPT
                    !.deferred = SubSeq(@, 1, Len(@) - 1),
                    !.ran = Append(@, process.deferred[Len(process.deferred)]) ]
  /\ UNCHANGED servers
  /\ RunFrame

\* Line 28: os.Exit(run()).
Exit ==
  /\ RunAt("deferred")
  /\ process.deferred = <<>>
  /\ process' = [ process EXCEPT !.pc = "exited" ]
  /\ UNCHANGED servers
  /\ RunFrame

InitRun ==
  /\ rows = {}
  /\ engine = EmptyMap
  /\ last = NoCall
  /\ req = [ ServiceInstance |-> DocEmpty, RequestLabels |-> EmptyMap ]
  /\ InitPipeline
  /\ cancelled = FALSE
  /\ requests = <<>>
  /\ servers = NotStarted
  /\ process = [ pc |-> "load", timeout |-> "", store |-> FALSE,
                 deferred |-> <<>>, ran |-> <<>>, exit |-> Nil ]

NextRun ==
  \/ \E ok \in BOOLEAN, timeout \in Timeouts : LoadConfig(ok, timeout)
  \/ \E ok \in BOOLEAN : InitDB(ok)
  \/ ParseTimeout
  \/ \E ok \in BOOLEAN : Listen("public", "listen engine", ok)
  \/ \E ok \in BOOLEAN : Listen("engine", "runServers", ok)
  \/ InRunServers
  \/ RunServersDone
  \/ RunDeferred
  \/ Exit

SpecRun == InitRun /\ [][NextRun]_vars

\* ============================================================= claims on run

Exited == process.pc = "exited"

\* The deferred calls that have run.
Ran == { process.ran[i] : i \in DOMAIN process.ran }

\* C38: when the process has exited and run had created the store, the
\* store's Close has been called.
C38_StoreClosedOnExit ==
  (Exited /\ process.store) => "dataStore.Close" \in Ran

\* ===================================== claims on the cover of the differences

\* The fields at which two documents differ: a key path that one document
\* lacks, or whose values differ (in value or in JSON type) without both
\* being objects.
DifferingFields(before, after) ==
  { ks \in KeyPaths(before) \cup KeyPaths(after) :
      \/ ~HasPath(before, ks)
      \/ ~HasPath(after, ks)
      \/ /\ ~(IsObj(ValueAt(before, ks)) /\ IsObj(ValueAt(after, ks)))
         /\ ValueAt(before, ks) # ValueAt(after, ks) }

\* The output_spec of a call of the policy holds the document's value at the
\* key path (or lacks the path, as the document does).
Introduced(policyID, doc, ks) ==
  \E i \in DOMAIN calls :
    /\ calls[i].policy = policyID
    /\ CarriesOutputSpec(calls[i])
    /\ HasPath(OutputSpecOf(calls[i]), ks) = HasPath(doc, ks)
    /\ HasPath(doc, ks) => ValueAt(OutputSpecOf(calls[i]), ks) = ValueAt(doc, ks)

\* C39: in a returned response, every field at which the evaluated service
\* instance differs from the request's service instance has its path or an
\* ancestor of it frozen, and attributed to a policy whose output_spec
\* introduced the final value.
C39_DifferencesCovered ==
  Returned =>
    \A ks \in DifferingFields(req.ServiceInstance, result.EvaluatedServiceInstance) :
      \E n \in 1..Len(ks) :
        LET frozen == PathString(SubSeq(ks, 1, n))
        IN  /\ frozen \in immutableFields
            /\ Introduced(GetSetBy(setBy, frozen), result.EvaluatedServiceInstance, ks)

\* ============================================= claims on colliding path names

Conflicted == result.kind = "PolicyConflict"

\* The field at the key path differs between the two documents.
FieldChanged(before, after, ks) ==
  \/ HasPath(before, ks) # HasPath(after, ks)
  \/ HasPath(before, ks) /\ ValueAt(before, ks) # ValueAt(after, ks)

\* C40: a PolicyConflict names a path only when the field an earlier policy
\* froze under that path, reached by the same sequence of keys, is changed by
\* the conflicting output_spec.
C40_ConflictOnFrozenFieldOnly ==
  Conflicted =>
    LET conflicting == calls[Len(calls)]
    IN  \E i \in 1..(Len(calls) - 1) :
          /\ CarriesOutputSpec(calls[i])
          /\ \E ks \in FrozenKeyPaths(calls[i]) :
               /\ PathString(ks) = result.field
               /\ FieldChanged(conflicting.input.spec, OutputSpecOf(conflicting), ks)

=============================================================================
